---- MODULE Spec2Model ----
(***************************************************************************)
(* The 2048 rules engine and game session of src/app/index.tsx (HomeScreen) *)
(* together with the recent-run history of the game context                *)
(* (src/app/leaderboard.tsx, GameProvider).  The screen of                  *)
(* src/app/(tabs)/index.tsx has the same rules engine and session and      *)
(* keeps a recent-run history of its own.                                   *)
(*                                                                         *)
(* A board is a sequence of tile records, in the order of the JS array.    *)
(* Sequences are 1-based here, rows and columns are 0-based as in the code.*)
(***************************************************************************)
EXTENDS Integers, Sequences, FiniteSets

(***************************************************************************)
(* Program constants                                                       *)
(***************************************************************************)
BOARD_SIZE == 4
INITIAL_TILES == 2
WIN_TARGET == 2048
RECENT_RUNS_CAP == 10
TABS_RECENT_RUNS_CAP == 5

\* Accelerations are in tenths of g (SHAKE_THRESHOLD = 1.8), times in
\* milliseconds.
SHAKE_THRESHOLD == 18
SHAKE_DEBOUNCE_MS == 2200

Directions == {"up", "down", "left", "right"}
GameResetReason == {"manual", "sensor", "menu"}

\* The two game screens: HomeScreen of index.tsx, which logs its rounds to the
\* game context, and HomeScreen of (tabs)/index.tsx, which logs them to its
\* own state.
Screens == {"home", "tabs"}

(***************************************************************************)
(* Bounds of the model                                                     *)
(***************************************************************************)
\* Number of inputs (Move, NewGame) handled in one behaviour.
MaxInputs == 2

\* Math.random() returns a number in [0, 1); the model samples it at these
\* hundredths (0.00 and 0.95).
RandomDraws == {0, 95}

\* The four draws of generateInitialTiles (cell, value, cell, value):
\* 2 and 2 in cells 0 and 1; 4 and 4 in cells 15 and 14; 2 in cell 0 and 4 in
\* cell 15; 2 in cell 15 and 4 in cell 0.
InitialDraws == {<<0, 0, 0, 0>>, <<95, 95, 95, 95>>, <<0, 0, 95, 95>>, <<95, 0, 0, 95>>}

\* Enumerated boards hold the values 2^1 .. 2^MaxExponent, and moveTiles is
\* applied to them MaxCollapses times in a row.
MaxExponent == 2
MaxCollapses == 1

(***************************************************************************)
(* Helpers                                                                 *)
(***************************************************************************)
MaxOf(S) == CHOOSE x \in S : \A y \in S : y <= x

\* The comparators handed to Array.prototype.sort: by column or row,
\* ascending or descending (slideRow, slideColumn), and by row, then column,
\* then id (moveTiles).
compare(order, a, b) ==
  CASE order = "colAscending" -> a.col - b.col
    [] order = "colDescending" -> b.col - a.col
    [] order = "rowAscending" -> a.row - b.row
    [] order = "rowDescending" -> b.row - a.row
    [] order = "rowColId" -> IF a.row # b.row THEN a.row - b.row
                             ELSE IF a.col # b.col THEN a.col - b.col
                             ELSE a.id - b.id

\* The sorted array with element x put in: behind the elements that do not
\* compare higher than x, before the first one that does.
RECURSIVE insertSorted(_, _, _)
insertSorted(sorted, x, order) ==
  IF sorted = <<>> \/ compare(order, sorted[Len(sorted)], x) <= 0
  THEN Append(sorted, x)
  ELSE Append(insertSorted(SubSeq(sorted, 1, Len(sorted) - 1), x, order),
              sorted[Len(sorted)])

\* The first n elements of s, sorted.
RECURSIVE sortFirst(_, _, _)
sortFirst(s, n, order) ==
  IF n = 0 THEN <<>> ELSE insertSorted(sortFirst(s, n - 1, order), s[n], order)

\* Array.prototype.sort with the comparator named by order (negative: a before
\* b).  The JS sort is stable, so the result is determined: an element stands
\* behind the elements that compare lower and behind the equal ones that
\* stood before it.
sort(s, order) == sortFirst(s, Len(s), order)

\* Math.floor(Math.random() * length), the draw u given in hundredths.
RandomIndex(u, length) == (u * length) \div 100

\* Math.random() < 0.9 ? 2 : 4, the draw w given in hundredths.
RandomValue(w) == IF w < 90 THEN 2 ELSE 4

(***************************************************************************)
(* Tiles and board queries                                                 *)
(***************************************************************************)
Tile(id, value, row, col, isNew, justMerged) ==
  [id |-> id, value |-> value, row |-> row, col |-> col,
   isNew |-> isNew, justMerged |-> justMerged]

\* The cells in the order of the nested row/col loops.
AllCells ==
  [k \in 1..(BOARD_SIZE * BOARD_SIZE) |->
     [row |-> (k - 1) \div BOARD_SIZE, col |-> (k - 1) % BOARD_SIZE]]

getEmptyPositions(tiles) ==
  LET occupancy == {<<tiles[i].row, tiles[i].col>> : i \in DOMAIN tiles}
  IN  SelectSeq(AllCells, LAMBDA c : <<c.row, c.col>> \notin occupancy)

\* grid[row][col] after tiles.forEach(tile => grid[tile.row][tile.col] = tile):
\* the index of the last tile written to the cell, 0 for null.
gridIndex(tiles, row, col) ==
  MaxOf({0} \cup {i \in DOMAIN tiles : tiles[i].row = row /\ tiles[i].col = col})

\* Mutant of containsTargetTile: > for >=.
containsTargetTileAbove(tiles, target) ==
  \E i \in DOMAIN tiles : tiles[i].value > target

\* Mutant of containsTargetTile: = for >=.
containsTargetTileExact(tiles, target) ==
  \E i \in DOMAIN tiles : tiles[i].value = target

containsTargetTile(tiles, target) ==
  \E i \in DOMAIN tiles : tiles[i].value >= target

\* Mutant of hasAvailableMoves: a cell is compared with its right neighbour
\* only (the down comparison is missing).
hasAvailableMovesRightOnly(tiles) ==
  IF Len(tiles) < BOARD_SIZE * BOARD_SIZE
  THEN TRUE
  ELSE \E row \in 0..(BOARD_SIZE - 1), col \in 0..(BOARD_SIZE - 1) :
         LET t == gridIndex(tiles, row, col)
             right == IF col + 1 < BOARD_SIZE THEN gridIndex(tiles, row, col + 1) ELSE 0
         IN  /\ t # 0
             /\ right # 0
             /\ tiles[right].value = tiles[t].value

\* Mutant of hasAvailableMoves: a cell is compared with its down neighbour
\* only (the right comparison is missing).
hasAvailableMovesDownOnly(tiles) ==
  IF Len(tiles) < BOARD_SIZE * BOARD_SIZE
  THEN TRUE
  ELSE \E row \in 0..(BOARD_SIZE - 1), col \in 0..(BOARD_SIZE - 1) :
         LET t == gridIndex(tiles, row, col)
             down == IF row + 1 < BOARD_SIZE THEN gridIndex(tiles, row + 1, col) ELSE 0
         IN  /\ t # 0
             /\ down # 0
             /\ tiles[down].value = tiles[t].value

\* Mutant of hasAvailableMoves: the length test lets the full board through
\* (<= for <).
hasAvailableMovesOffByOne(tiles) ==
  Len(tiles) <= BOARD_SIZE * BOARD_SIZE

hasAvailableMoves(tiles) ==
  IF Len(tiles) < BOARD_SIZE * BOARD_SIZE
  THEN TRUE
  ELSE \E row \in 0..(BOARD_SIZE - 1), col \in 0..(BOARD_SIZE - 1) :
         LET t == gridIndex(tiles, row, col)
             right == IF col + 1 < BOARD_SIZE THEN gridIndex(tiles, row, col + 1) ELSE 0
             down == IF row + 1 < BOARD_SIZE THEN gridIndex(tiles, row + 1, col) ELSE 0
         IN  /\ t # 0
             /\ \/ (right # 0 /\ tiles[right].value = tiles[t].value)
                \/ (down # 0 /\ tiles[down].value = tiles[t].value)

(***************************************************************************)
(* Tile spawner and initial board.  getId is the session's getNextTileId:  *)
(* the operators take the counter tileIdRef.current and return it with the *)
(* tiles.                                                                  *)
(***************************************************************************)
\* Mutant of getNextTileId: the counter is returned without being increased.
getNextTileIdStuck(idRef) == idRef

getNextTileId(idRef) == idRef + 1

\* Mutant of addRandomTile: the cell is drawn among all cells, not the empty ones.
addRandomTileAnyCell(tiles, idRef, u, w) ==
  LET choice == AllCells[RandomIndex(u, Len(AllCells)) + 1]
      id == getNextTileId(idRef)
  IN  [tiles |-> Append(tiles, Tile(id, RandomValue(w), choice.row, choice.col, TRUE, FALSE)),
       idRef |-> id]

\* Mutant of addRandomTile: the id is allocated before the empty cells are
\* looked at, so a full board costs an id.
addRandomTileIdFirst(tiles, idRef, u, w) ==
  LET emptyPositions == getEmptyPositions(tiles)
      id == getNextTileId(idRef)
  IN  IF Len(emptyPositions) = 0
      THEN [tiles |-> tiles, idRef |-> id]
      ELSE LET choice == emptyPositions[RandomIndex(u, Len(emptyPositions)) + 1]
               value == RandomValue(w)
           IN  [tiles |-> Append(tiles, Tile(id, value, choice.row, choice.col, TRUE, FALSE)),
                idRef |-> id]

addRandomTile(tiles, idRef, u, w) ==
  LET emptyPositions == getEmptyPositions(tiles)
  IN  IF Len(emptyPositions) = 0
      THEN [tiles |-> tiles, idRef |-> idRef]
      ELSE LET choice == emptyPositions[RandomIndex(u, Len(emptyPositions)) + 1]
               value == RandomValue(w)
               id == getNextTileId(idRef)
           IN  [tiles |-> Append(tiles, Tile(id, value, choice.row, choice.col, TRUE, FALSE)),
                idRef |-> id]

\* The loop of generateInitialTiles from iteration i on; draws holds the
\* Math.random() results in call order (two per iteration).
RECURSIVE generateInitialTilesFrom(_, _, _, _)
generateInitialTilesFrom(i, tiles, idRef, draws) ==
  IF i >= INITIAL_TILES \/ Len(getEmptyPositions(tiles)) = 0
  THEN [tiles |-> tiles, idRef |-> idRef]
  ELSE LET emptyPositions == getEmptyPositions(tiles)
           choice == emptyPositions[RandomIndex(draws[2 * i + 1], Len(emptyPositions)) + 1]
           value == RandomValue(draws[2 * i + 2])
           id == getNextTileId(idRef)
       IN  generateInitialTilesFrom(
             i + 1,
             Append(tiles, Tile(id, value, choice.row, choice.col, TRUE, FALSE)),
             id, draws)

generateInitialTiles(idRef, draws) == generateInitialTilesFrom(0, <<>>, idRef, draws)

(***************************************************************************)
(* Line collapse                                                           *)
(***************************************************************************)
\* Mutant of slideRowFrom: a tile is merged with the tile that follows it
\* whatever its value (the comparison of the two values is missing), and
\* takes the sum of the two.
RECURSIVE slideRowFromMergingAny(_, _, _, _, _, _)
slideRowFromMergingAny(sorted, row, direction, i, targetIndex, acc) ==
  IF i > Len(sorted)
  THEN acc
  ELSE LET tile == sorted[i]
           targetCol == IF direction = "left" THEN targetIndex
                        ELSE BOARD_SIZE - 1 - targetIndex
           merge == i + 1 <= Len(sorted)
           value == IF merge THEN tile.value + sorted[i + 1].value ELSE tile.value
           out == [tile EXCEPT !.value = value, !.justMerged = merge,
                               !.col = targetCol, !.row = row]
       IN  slideRowFromMergingAny(sorted, row, direction,
             IF merge THEN i + 2 ELSE i + 1,
             targetIndex + 1,
             [tiles |-> Append(acc.tiles, out),
              moved |-> acc.moved \/ merge \/ tile.col # targetCol \/ tile.row # row,
              score |-> acc.score + (IF merge THEN value ELSE 0)])

\* Mutant of slideRowFrom: the merged tile is built from the tile farther from
\* the destination edge (nextTile is doubled and kept, tile is dropped).
RECURSIVE slideRowFromKeepingFarTile(_, _, _, _, _, _)
slideRowFromKeepingFarTile(sorted, row, direction, i, targetIndex, acc) ==
  IF i > Len(sorted)
  THEN acc
  ELSE LET tile == sorted[i]
           targetCol == IF direction = "left" THEN targetIndex
                        ELSE BOARD_SIZE - 1 - targetIndex
           merge == i + 1 <= Len(sorted) /\ sorted[i + 1].value = tile.value
           value == IF merge THEN tile.value * 2 ELSE tile.value
           kept == IF merge THEN sorted[i + 1] ELSE tile
           out == [kept EXCEPT !.value = value, !.justMerged = merge,
                               !.col = targetCol, !.row = row]
       IN  slideRowFromKeepingFarTile(sorted, row, direction,
             IF merge THEN i + 2 ELSE i + 1,
             targetIndex + 1,
             [tiles |-> Append(acc.tiles, out),
              moved |-> acc.moved \/ merge \/ tile.col # targetCol \/ tile.row # row,
              score |-> acc.score + (IF merge THEN value ELSE 0)])

\* Mutant of slideRowFrom: the target slot is advanced once per scanned tile,
\* the consumed one included (targetIndex += 2 after a merge).
RECURSIVE slideRowFromSlotPerTile(_, _, _, _, _, _)
slideRowFromSlotPerTile(sorted, row, direction, i, targetIndex, acc) ==
  IF i > Len(sorted)
  THEN acc
  ELSE LET tile == sorted[i]
           targetCol == IF direction = "left" THEN targetIndex
                        ELSE BOARD_SIZE - 1 - targetIndex
           merge == i + 1 <= Len(sorted) /\ sorted[i + 1].value = tile.value
           value == IF merge THEN tile.value * 2 ELSE tile.value
           out == [tile EXCEPT !.value = value, !.justMerged = merge,
                               !.col = targetCol, !.row = row]
       IN  slideRowFromSlotPerTile(sorted, row, direction,
             IF merge THEN i + 2 ELSE i + 1,
             IF merge THEN targetIndex + 2 ELSE targetIndex + 1,
             [tiles |-> Append(acc.tiles, out),
              moved |-> acc.moved \/ merge \/ tile.col # targetCol \/ tile.row # row,
              score |-> acc.score + (IF merge THEN value ELSE 0)])

\* Mutant of slideRowFrom: the tile nearest the destination edge is never
\* merged with its neighbour (the merge test starts at the second tile).
RECURSIVE slideRowFromSkippingFirst(_, _, _, _, _, _)
slideRowFromSkippingFirst(sorted, row, direction, i, targetIndex, acc) ==
  IF i > Len(sorted)
  THEN acc
  ELSE LET tile == sorted[i]
           targetCol == IF direction = "left" THEN targetIndex
                        ELSE BOARD_SIZE - 1 - targetIndex
           merge == i > 1 /\ i + 1 <= Len(sorted) /\ sorted[i + 1].value = tile.value
           value == IF merge THEN tile.value * 2 ELSE tile.value
           out == [tile EXCEPT !.value = value, !.justMerged = merge,
                               !.col = targetCol, !.row = row]
       IN  slideRowFromSkippingFirst(sorted, row, direction,
             IF merge THEN i + 2 ELSE i + 1,
             targetIndex + 1,
             [tiles |-> Append(acc.tiles, out),
              moved |-> acc.moved \/ merge \/ tile.col # targetCol \/ tile.row # row,
              score |-> acc.score + (IF merge THEN value ELSE 0)])

\* Mutant of slideRowFrom: the consumed tile is not skipped (i += 1 is missing),
\* so it is scanned again and may merge again.
RECURSIVE slideRowFromNoSkip(_, _, _, _, _, _)
slideRowFromNoSkip(sorted, row, direction, i, targetIndex, acc) ==
  IF i > Len(sorted)
  THEN acc
  ELSE LET tile == sorted[i]
           targetCol == IF direction = "left" THEN targetIndex
                        ELSE BOARD_SIZE - 1 - targetIndex
           merge == i + 1 <= Len(sorted) /\ sorted[i + 1].value = tile.value
           value == IF merge THEN tile.value * 2 ELSE tile.value
           out == [tile EXCEPT !.value = value, !.justMerged = merge,
                               !.col = targetCol, !.row = row]
       IN  slideRowFromNoSkip(sorted, row, direction, i + 1, targetIndex + 1,
             [tiles |-> Append(acc.tiles, out),
              moved |-> acc.moved \/ merge \/ tile.col # targetCol \/ tile.row # row,
              score |-> acc.score + (IF merge THEN value ELSE 0)])

\* Mutant of slideRowFrom: the score is increased before the value is doubled,
\* by the value of one of the merged tiles.
RECURSIVE slideRowFromScoreBefore(_, _, _, _, _, _)
slideRowFromScoreBefore(sorted, row, direction, i, targetIndex, acc) ==
  IF i > Len(sorted)
  THEN acc
  ELSE LET tile == sorted[i]
           targetCol == IF direction = "left" THEN targetIndex
                        ELSE BOARD_SIZE - 1 - targetIndex
           merge == i + 1 <= Len(sorted) /\ sorted[i + 1].value = tile.value
           value == IF merge THEN tile.value * 2 ELSE tile.value
           out == [tile EXCEPT !.value = value, !.justMerged = merge,
                               !.col = targetCol, !.row = row]
       IN  slideRowFromScoreBefore(sorted, row, direction,
             IF merge THEN i + 2 ELSE i + 1,
             targetIndex + 1,
             [tiles |-> Append(acc.tiles, out),
              moved |-> acc.moved \/ merge \/ tile.col # targetCol \/ tile.row # row,
              score |-> acc.score + (IF merge THEN tile.value ELSE 0)])

\* The for loop of slideRow from scan position i (1-based) on; acc is
\* (result, moved, score).
RECURSIVE slideRowFrom(_, _, _, _, _, _)
slideRowFrom(sorted, row, direction, i, targetIndex, acc) ==
  IF i > Len(sorted)
  THEN acc
  ELSE LET tile == sorted[i]
           targetCol == IF direction = "left" THEN targetIndex
                        ELSE BOARD_SIZE - 1 - targetIndex
           merge == i + 1 <= Len(sorted) /\ sorted[i + 1].value = tile.value
           value == IF merge THEN tile.value * 2 ELSE tile.value
           out == [tile EXCEPT !.value = value, !.justMerged = merge,
                               !.col = targetCol, !.row = row]
       IN  slideRowFrom(sorted, row, direction,
             IF merge THEN i + 2 ELSE i + 1,
             targetIndex + 1,
             [tiles |-> Append(acc.tiles, out),
              moved |-> acc.moved \/ merge \/ tile.col # targetCol \/ tile.row # row,
              score |-> acc.score + (IF merge THEN value ELSE 0)])

slideRow(rowTiles, row, direction) ==
  LET sorted == IF direction = "left"
                THEN sort(rowTiles, "colAscending")
                ELSE sort(rowTiles, "colDescending")
  IN  slideRowFrom(sorted, row, direction, 1, 0,
                   [tiles |-> <<>>, moved |-> FALSE, score |-> 0])

\* Mutant of slideColumnFrom: moved is set by a change of position only, a
\* merge does not set it (|| merged is missing).
RECURSIVE slideColumnFromMovedByPosition(_, _, _, _, _, _)
slideColumnFromMovedByPosition(sorted, col, direction, i, targetIndex, acc) ==
  IF i > Len(sorted)
  THEN acc
  ELSE LET tile == sorted[i]
           targetRow == IF direction = "up" THEN targetIndex
                        ELSE BOARD_SIZE - 1 - targetIndex
           merge == i + 1 <= Len(sorted) /\ sorted[i + 1].value = tile.value
           value == IF merge THEN tile.value * 2 ELSE tile.value
           out == [tile EXCEPT !.value = value, !.justMerged = merge,
                               !.row = targetRow, !.col = col]
       IN  slideColumnFromMovedByPosition(sorted, col, direction,
             IF merge THEN i + 2 ELSE i + 1,
             targetIndex + 1,
             [tiles |-> Append(acc.tiles, out),
              moved |-> acc.moved \/ tile.row # targetRow \/ tile.col # col,
              score |-> acc.score + (IF merge THEN value ELSE 0)])

\* Mutant of slideColumnFrom: a merge removes the consumed tile but does not
\* double the survivor (tile.value *= 2 is missing).
RECURSIVE slideColumnFromNoDouble(_, _, _, _, _, _)
slideColumnFromNoDouble(sorted, col, direction, i, targetIndex, acc) ==
  IF i > Len(sorted)
  THEN acc
  ELSE LET tile == sorted[i]
           targetRow == IF direction = "up" THEN targetIndex
                        ELSE BOARD_SIZE - 1 - targetIndex
           merge == i + 1 <= Len(sorted) /\ sorted[i + 1].value = tile.value
           out == [tile EXCEPT !.justMerged = merge, !.row = targetRow, !.col = col]
       IN  slideColumnFromNoDouble(sorted, col, direction,
             IF merge THEN i + 2 ELSE i + 1,
             targetIndex + 1,
             [tiles |-> Append(acc.tiles, out),
              moved |-> acc.moved \/ merge \/ tile.row # targetRow \/ tile.col # col,
              score |-> acc.score + (IF merge THEN tile.value ELSE 0)])

RECURSIVE slideColumnFrom(_, _, _, _, _, _)
slideColumnFrom(sorted, col, direction, i, targetIndex, acc) ==
  IF i > Len(sorted)
  THEN acc
  ELSE LET tile == sorted[i]
           targetRow == IF direction = "up" THEN targetIndex
                        ELSE BOARD_SIZE - 1 - targetIndex
           merge == i + 1 <= Len(sorted) /\ sorted[i + 1].value = tile.value
           value == IF merge THEN tile.value * 2 ELSE tile.value
           out == [tile EXCEPT !.value = value, !.justMerged = merge,
                               !.row = targetRow, !.col = col]
       IN  slideColumnFrom(sorted, col, direction,
             IF merge THEN i + 2 ELSE i + 1,
             targetIndex + 1,
             [tiles |-> Append(acc.tiles, out),
              moved |-> acc.moved \/ merge \/ tile.row # targetRow \/ tile.col # col,
              score |-> acc.score + (IF merge THEN value ELSE 0)])

\* Mutant of slideColumn: the tiles are scanned from the top for either
\* direction (the descending sort of 'down' is missing).
slideColumnFromTopOnly(columnTiles, col, direction) ==
  slideColumnFrom(sort(columnTiles, "rowAscending"), col, direction, 1, 0,
                  [tiles |-> <<>>, moved |-> FALSE, score |-> 0])

slideColumn(columnTiles, col, direction) ==
  LET sorted == IF direction = "up"
                THEN sort(columnTiles, "rowAscending")
                ELSE sort(columnTiles, "rowDescending")
  IN  slideColumnFrom(sorted, col, direction, 1, 0,
                      [tiles |-> <<>>, moved |-> FALSE, score |-> 0])

(***************************************************************************)
(* Move orchestrator                                                       *)
(***************************************************************************)
\* Mutant of clearFlags: isNew is not reset (only justMerged is).
clearFlagsKeepingNew(tiles) ==
  [i \in DOMAIN tiles |-> [tiles[i] EXCEPT !.justMerged = FALSE]]

\* tiles.map(tile => ({...tile, isNew: false, justMerged: false}))
clearFlags(tiles) ==
  [i \in DOMAIN tiles |-> [tiles[i] EXCEPT !.isNew = FALSE, !.justMerged = FALSE]]

\* The tiles of one line of the grid, in scan order (null cells skipped);
\* horizontal: line is a row and the scan runs over the columns.
lineTiles(clones, line, horizontal) ==
  LET cells == [k \in 1..BOARD_SIZE |->
                  IF horizontal THEN gridIndex(clones, line, k - 1)
                  ELSE gridIndex(clones, k - 1, line)]
      present == SelectSeq(cells, LAMBDA x : x # 0)
  IN  [k \in 1..Len(present) |-> clones[present[k]]]

\* Mutant of collapseLinesFrom: every line is collapsed into line 0 (slideRow
\* and slideColumn are handed 0 for the line they write).
RECURSIVE collapseLinesFromIntoFirstLine(_, _, _, _)
collapseLinesFromIntoFirstLine(clones, direction, line, acc) ==
  IF line >= BOARD_SIZE
  THEN acc
  ELSE LET horizontal == direction \in {"left", "right"}
           these == lineTiles(clones, line, horizontal)
           res == IF horizontal THEN slideRow(these, 0, direction)
                  ELSE slideColumn(these, 0, direction)
       IN  IF Len(these) = 0
           THEN collapseLinesFromIntoFirstLine(clones, direction, line + 1, acc)
           ELSE collapseLinesFromIntoFirstLine(clones, direction, line + 1,
                  [tiles |-> acc.tiles \o res.tiles,
                   moved |-> acc.moved \/ res.moved,
                   scoreGained |-> acc.scoreGained + res.score])

\* The loop over the rows (left/right) or columns (up/down) from line on; acc is
\* (updatedTiles, moved, scoreGained).
RECURSIVE collapseLinesFrom(_, _, _, _)
collapseLinesFrom(clones, direction, line, acc) ==
  IF line >= BOARD_SIZE
  THEN acc
  ELSE LET horizontal == direction \in {"left", "right"}
           these == lineTiles(clones, line, horizontal)
           res == IF horizontal THEN slideRow(these, line, direction)
                  ELSE slideColumn(these, line, direction)
       IN  IF Len(these) = 0
           THEN collapseLinesFrom(clones, direction, line + 1, acc)
           ELSE collapseLinesFrom(clones, direction, line + 1,
                  [tiles |-> acc.tiles \o res.tiles,
                   moved |-> acc.moved \/ res.moved,
                   scoreGained |-> acc.scoreGained + res.score])

\* Mutant of moveTiles: updatedTiles is returned as the loops filled it, line
\* by line (the final sort is missing).
moveTilesUnsorted(tiles, direction) ==
  LET clones == clearFlags(tiles)
      res == collapseLinesFrom(clones, direction, 0,
               [tiles |-> <<>>, moved |-> FALSE, scoreGained |-> 0])
  IN  IF ~res.moved
      THEN [tiles |-> clearFlags(tiles), moved |-> FALSE, scoreGained |-> 0]
      ELSE [tiles |-> res.tiles, moved |-> TRUE, scoreGained |-> res.scoreGained]

\* Mutant of moveTiles: moved is reported whether or not a line changed (the
\* no-op return is missing).
moveTilesAlwaysMoved(tiles, direction) ==
  LET clones == clearFlags(tiles)
      res == collapseLinesFrom(clones, direction, 0,
               [tiles |-> <<>>, moved |-> FALSE, scoreGained |-> 0])
  IN  [tiles |-> sort(res.tiles, "rowColId"), moved |-> TRUE,
       scoreGained |-> res.scoreGained]

moveTiles(tiles, direction) ==
  LET clones == clearFlags(tiles)
      res == collapseLinesFrom(clones, direction, 0,
               [tiles |-> <<>>, moved |-> FALSE, scoreGained |-> 0])
  IN  IF ~res.moved
      THEN [tiles |-> clearFlags(tiles), moved |-> FALSE, scoreGained |-> 0]
      ELSE [tiles |-> sort(res.tiles, "rowColId"), moved |-> TRUE,
            scoreGained |-> res.scoreGained]

(***************************************************************************)
(* Game session: HomeScreen's state (tiles, score, bestScore, gameOver,    *)
(* hasWon), its refs (tileIdRef, scoreRef), the gameOver value captured by *)
(* the handleMove closure of the last render, and the game context's       *)
(* recentRuns.  A handler takes the session record and returns it with the *)
(* handler's state updates and ref writes applied.                         *)
(***************************************************************************)
VARIABLES
  tiles,          \* useState: the board
  score,          \* useState
  bestScore,      \* useState
  gameOver,       \* useState
  hasWon,         \* useState
  tileIdRef,      \* useRef: the id allocator's counter
  scoreRef,       \* useRef: mirror of score, written by an effect after render
  seenGameOver,   \* the gameOver captured by handleMove at the last render
  recentRuns,     \* useState of GameProvider (home) or of the screen (tabs):
                  \* most recent first
  screen,         \* which of the two screens the session belongs to
  pending,        \* state updates issued by handlers and not yet rendered
  last,           \* history: the last input, the session it was applied to and,
                  \* for a Move, what moveTiles returns for it
  inputs,         \* history: number of inputs handled so far
  clock,          \* what Date.now() returns, in milliseconds
  lastShakeTimeRef,  \* useRef of the accelerometer listener: time of the last
                  \* shake it accepted
  shakeHandlers,  \* useRef of GameProvider: the set of registered shake handlers
                  \* (a handler is known by its identity, a number)
  shakeEffect     \* the screen's effect that registers its shake handler:
                  \* whether the screen is mounted, whether the effect is due
                  \* to run, and the handler its cleanup deletes (0: none)

vars == <<tiles, score, bestScore, gameOver, hasWon, tileIdRef, scoreRef,
          seenGameOver, recentRuns, screen, pending, last, inputs, clock,
          lastShakeTimeRef, shakeHandlers, shakeEffect>>

Session ==
  [tiles |-> tiles, score |-> score, bestScore |-> bestScore, gameOver |-> gameOver,
   hasWon |-> hasWon, tileIdRef |-> tileIdRef, scoreRef |-> scoreRef,
   seenGameOver |-> seenGameOver, recentRuns |-> recentRuns, screen |-> screen]

\* A session of the home screen as it stands after a render and its effects.
SessionState(t, sc, best, over, won, idRef, runs) ==
  [tiles |-> t, score |-> sc, bestScore |-> best, gameOver |-> over,
   hasWon |-> won, tileIdRef |-> idRef, scoreRef |-> sc,
   seenGameOver |-> over, recentRuns |-> runs, screen |-> "home"]

\* The same session on the tabs screen.
OnTabs(s) == [s EXCEPT !.screen = "tabs"]

Max(a, b) == IF a >= b THEN a ELSE b

\* Mutant of addRecentRun: the new record is put behind the older ones
\* ([...runs, nextEntry]).
addRecentRunAtEnd(runs, sc, reason) ==
  IF sc <= 0
  THEN runs
  ELSE LET next == runs \o <<[score |-> sc, triggeredBy |-> reason]>>
       IN  SubSeq(next, 1, IF Len(next) < RECENT_RUNS_CAP THEN Len(next) ELSE RECENT_RUNS_CAP)

\* Mutant of addRecentRun: the list is cut one entry too late (slice(0, 11)).
addRecentRunCutLate(runs, sc, reason) ==
  IF sc <= 0
  THEN runs
  ELSE LET next == <<[score |-> sc, triggeredBy |-> reason]>> \o runs
       IN  SubSeq(next, 1, IF Len(next) < RECENT_RUNS_CAP + 1 THEN Len(next)
                           ELSE RECENT_RUNS_CAP + 1)

\* GameProvider.addRecentRun; the record's id and timestamp (wall clock) are
\* left out.
addRecentRun(runs, sc, reason) ==
  IF sc <= 0
  THEN runs
  ELSE LET next == <<[score |-> sc, triggeredBy |-> reason]>> \o runs
       IN  SubSeq(next, 1, IF Len(next) < RECENT_RUNS_CAP THEN Len(next) ELSE RECENT_RUNS_CAP)

\* The setRecentRuns updater of the tabs screen's handleNewGame, previousScore
\* read from scoreRef; id and timestamp are left out.
setRecentRuns(runs, previousScore, reason) ==
  IF previousScore <= 0
  THEN runs
  ELSE LET next == <<[score |-> previousScore, triggeredBy |-> reason]>> \o runs
       IN  SubSeq(next, 1, IF Len(next) < TABS_RECENT_RUNS_CAP THEN Len(next)
                           ELSE TABS_RECENT_RUNS_CAP)

\* The history after handleNewGame has logged the round: through the game
\* context on the home screen, through its own updater on the tabs screen.
logRun(s, reason) ==
  IF s.screen = "tabs"
  THEN setRecentRuns(s.recentRuns, s.scoreRef, reason)
  ELSE addRecentRun(s.recentRuns, s.scoreRef, reason)

\* Mutant of handleNewGame: hasWon is left as it is (setHasWon(false) is
\* missing).
handleNewGameKeepingWon(s, reason, draws) ==
  LET fresh == generateInitialTiles(0, draws)
  IN  [s EXCEPT !.recentRuns = logRun(s, reason),
                !.tileIdRef = fresh.idRef,
                !.tiles = fresh.tiles,
                !.score = 0,
                !.gameOver = FALSE]

\* Mutant of handleNewGame: the reset also clears bestScore.
handleNewGameClearingBest(s, reason, draws) ==
  LET fresh == generateInitialTiles(0, draws)
  IN  [s EXCEPT !.recentRuns = logRun(s, reason),
                !.tileIdRef = fresh.idRef,
                !.tiles = fresh.tiles,
                !.score = 0,
                !.bestScore = 0,
                !.gameOver = FALSE,
                !.hasWon = FALSE]

\* Mutant of handleNewGame: the id counter is not reset (tileIdRef.current = 0
\* is missing).
handleNewGameKeepingIds(s, reason, draws) ==
  LET fresh == generateInitialTiles(s.tileIdRef, draws)
  IN  [s EXCEPT !.recentRuns = logRun(s, reason),
                !.tileIdRef = fresh.idRef,
                !.tiles = fresh.tiles,
                !.score = 0,
                !.gameOver = FALSE,
                !.hasWon = FALSE]

handleNewGame(s, reason, draws) ==
  LET fresh == generateInitialTiles(0, draws)
  IN  [s EXCEPT !.recentRuns = logRun(s, reason),
                !.tileIdRef = fresh.idRef,
                !.tiles = fresh.tiles,
                !.score = 0,
                !.gameOver = FALSE,
                !.hasWon = FALSE]

\* Mutant of handleMove: the collapsed board is published as it is, no tile is
\* spawned (addRandomTile is not called).
handleMoveWithoutSpawn(s, direction, u, w) ==
  IF s.seenGameOver
  THEN s
  ELSE LET res == moveTiles(s.tiles, direction)
           nextScore == s.score + res.scoreGained
       IN  IF ~res.moved
           THEN s
           ELSE [s EXCEPT !.tiles = res.tiles,
                          !.score = nextScore,
                          !.bestScore = Max(s.bestScore, nextScore),
                          !.hasWon = s.hasWon \/ containsTargetTile(res.tiles, WIN_TARGET),
                          !.gameOver = ~hasAvailableMoves(res.tiles)]

\* Mutant of handleMove: neither early return is taken (the gameOver guard and
\* the !moved return are missing).
handleMoveUnguarded(s, direction, u, w) ==
  LET res == moveTiles(s.tiles, direction)
      spawn == addRandomTile(res.tiles, s.tileIdRef, u, w)
      nextScore == s.score + res.scoreGained
  IN  [s EXCEPT !.tiles = spawn.tiles,
                !.tileIdRef = spawn.idRef,
                !.score = nextScore,
                !.bestScore = Max(s.bestScore, nextScore),
                !.hasWon = s.hasWon \/ containsTargetTile(spawn.tiles, WIN_TARGET),
                !.gameOver = ~hasAvailableMoves(spawn.tiles)]

\* Mutant of handleMove: the score is set to the gain of the move instead of
\* being increased by it (prevScore is dropped).
handleMoveScoreSet(s, direction, u, w) ==
  IF s.seenGameOver
  THEN s
  ELSE LET res == moveTiles(s.tiles, direction)
           spawn == addRandomTile(res.tiles, s.tileIdRef, u, w)
           nextScore == res.scoreGained
       IN  IF ~res.moved
           THEN s
           ELSE [s EXCEPT !.tiles = spawn.tiles,
                          !.tileIdRef = spawn.idRef,
                          !.score = nextScore,
                          !.bestScore = Max(s.bestScore, nextScore),
                          !.hasWon = s.hasWon \/ containsTargetTile(spawn.tiles, WIN_TARGET),
                          !.gameOver = ~hasAvailableMoves(spawn.tiles)]

\* Mutant of handleMove: the result of moveTiles is used whether or not
\* anything moved (the early return on !moved is missing).
handleMoveIgnoringMoved(s, direction, u, w) ==
  IF s.seenGameOver
  THEN s
  ELSE LET res == moveTiles(s.tiles, direction)
           spawn == addRandomTile(res.tiles, s.tileIdRef, u, w)
           nextScore == s.score + res.scoreGained
       IN  [s EXCEPT !.tiles = spawn.tiles,
                     !.tileIdRef = spawn.idRef,
                     !.score = nextScore,
                     !.bestScore = Max(s.bestScore, nextScore),
                     !.hasWon = s.hasWon \/ containsTargetTile(spawn.tiles, WIN_TARGET),
                     !.gameOver = ~hasAvailableMoves(spawn.tiles)]

\* Mutant of handleMove: a round that has been won takes no further Move (the
\* guard tests hasWon as well).
handleMoveBlockedOnceWon(s, direction, u, w) ==
  IF s.seenGameOver \/ s.hasWon
  THEN s
  ELSE LET res == moveTiles(s.tiles, direction)
           spawn == addRandomTile(res.tiles, s.tileIdRef, u, w)
           nextScore == s.score + res.scoreGained
       IN  IF ~res.moved
           THEN s
           ELSE [s EXCEPT !.tiles = spawn.tiles,
                          !.tileIdRef = spawn.idRef,
                          !.score = nextScore,
                          !.bestScore = Max(s.bestScore, nextScore),
                          !.hasWon = s.hasWon \/ containsTargetTile(spawn.tiles, WIN_TARGET),
                          !.gameOver = ~hasAvailableMoves(spawn.tiles)]

handleMove(s, direction, u, w) ==
  IF s.seenGameOver
  THEN s
  ELSE LET res == moveTiles(s.tiles, direction)
           spawn == addRandomTile(res.tiles, s.tileIdRef, u, w)
           nextScore == s.score + res.scoreGained
       IN  IF ~res.moved
           THEN s
           ELSE [s EXCEPT !.tiles = spawn.tiles,
                          !.tileIdRef = spawn.idRef,
                          !.score = nextScore,
                          !.bestScore = Max(s.bestScore, nextScore),
                          !.hasWon = s.hasWon \/ containsTargetTile(spawn.tiles, WIN_TARGET),
                          !.gameOver = ~hasAvailableMoves(spawn.tiles)]

\* The render that follows a handler's state updates: handleMove is rebuilt
\* over the new gameOver and the effect copies score into scoreRef.
render(s) ==
  [s EXCEPT !.seenGameOver = s.gameOver, !.scoreRef = s.score]

(***************************************************************************)
(* Sessions recorded from play: each was reached by the code from a fresh  *)
(* board through accepted moves (and resets), the random draws chosen.     *)
(***************************************************************************)
\* After 564 accepted moves of one round: two 1024 tiles stacked in column 2.
NearWinState ==
  SessionState(
    <<Tile(133, 1024, 0, 2, FALSE, FALSE), Tile(562, 32, 0, 3, FALSE, TRUE),
       Tile(520, 32, 1, 1, FALSE, FALSE), Tile(220, 1024, 1, 2, FALSE, FALSE),
       Tile(565, 8, 1, 3, FALSE, TRUE), Tile(557, 8, 2, 2, FALSE, FALSE),
       Tile(534, 128, 2, 3, FALSE, FALSE), Tile(566, 4, 0, 0, TRUE, FALSE)>>,
    17236, 17236, FALSE, FALSE, 566,
    <<>>)

\* NearWinState after Move up (spawn 2 in the last empty cell): a 2048 tile, play continues.
WonState ==
  SessionState(
    <<Tile(566, 4, 0, 0, FALSE, FALSE), Tile(520, 32, 0, 1, FALSE, FALSE),
       Tile(133, 2048, 0, 2, FALSE, TRUE), Tile(562, 32, 0, 3, FALSE, FALSE),
       Tile(557, 8, 1, 2, FALSE, FALSE), Tile(565, 8, 1, 3, FALSE, FALSE),
       Tile(534, 128, 2, 3, FALSE, FALSE), Tile(567, 2, 3, 3, TRUE, FALSE)>>,
    19284, 19284, FALSE, TRUE, 567,
    <<>>)

\* The won round 10 accepted moves later: one accepted move before the board locks.
WonNearOverState ==
  SessionState(
    <<Tile(568, 4, 0, 1, FALSE, FALSE), Tile(562, 32, 0, 2, FALSE, FALSE),
       Tile(569, 4, 0, 3, FALSE, FALSE), Tile(565, 8, 1, 1, FALSE, FALSE),
       Tile(573, 4, 1, 2, FALSE, FALSE), Tile(576, 2, 1, 3, FALSE, FALSE),
       Tile(574, 4, 2, 0, FALSE, TRUE), Tile(133, 2048, 2, 1, FALSE, FALSE),
       Tile(534, 128, 2, 2, FALSE, FALSE), Tile(571, 4, 2, 3, FALSE, FALSE),
       Tile(566, 8, 3, 0, FALSE, TRUE), Tile(520, 32, 3, 1, FALSE, FALSE),
       Tile(557, 8, 3, 2, FALSE, FALSE), Tile(567, 2, 3, 3, FALSE, FALSE),
       Tile(577, 2, 0, 0, TRUE, FALSE)>>,
    19300, 19300, FALSE, TRUE, 577,
    <<>>)

\* The won round with the board locked: hasWon and gameOver both set.
WonOverState ==
  SessionState(
    <<Tile(577, 2, 0, 0, FALSE, FALSE), Tile(568, 4, 0, 1, FALSE, FALSE),
       Tile(562, 32, 0, 2, FALSE, FALSE), Tile(569, 4, 0, 3, FALSE, FALSE),
       Tile(574, 4, 1, 0, FALSE, FALSE), Tile(565, 8, 1, 1, FALSE, FALSE),
       Tile(573, 4, 1, 2, FALSE, FALSE), Tile(576, 2, 1, 3, FALSE, FALSE),
       Tile(566, 8, 2, 0, FALSE, FALSE), Tile(133, 2048, 2, 1, FALSE, FALSE),
       Tile(534, 128, 2, 2, FALSE, FALSE), Tile(571, 4, 2, 3, FALSE, FALSE),
       Tile(520, 32, 3, 1, FALSE, FALSE), Tile(557, 8, 3, 2, FALSE, FALSE),
       Tile(567, 2, 3, 3, FALSE, FALSE), Tile(578, 2, 3, 0, TRUE, FALSE)>>,
    19300, 19300, TRUE, TRUE, 578,
    <<>>)

\* A first round after 32 accepted moves: 15 tiles on the board.
FifteenTilesState ==
  SessionState(
    <<Tile(30, 2, 0, 0, FALSE, FALSE), Tile(12, 8, 0, 1, FALSE, FALSE),
       Tile(22, 2, 0, 2, FALSE, FALSE), Tile(24, 8, 0, 3, FALSE, FALSE),
       Tile(8, 8, 1, 0, FALSE, FALSE), Tile(1, 2, 1, 1, FALSE, FALSE),
       Tile(17, 8, 1, 2, FALSE, FALSE), Tile(20, 4, 1, 3, FALSE, FALSE),
       Tile(9, 2, 2, 0, FALSE, FALSE), Tile(6, 32, 2, 1, FALSE, TRUE),
       Tile(14, 2, 2, 2, FALSE, FALSE), Tile(32, 8, 3, 0, FALSE, TRUE),
       Tile(27, 2, 3, 1, FALSE, FALSE), Tile(28, 16, 3, 2, FALSE, FALSE),
       Tile(34, 2, 3, 3, TRUE, FALSE)>>,
    184, 184, FALSE, FALSE, 34,
    <<>>)

\* The same round after 33 accepted moves: full board, one merge left (8, 8 in row 1).
NearOverState ==
  SessionState(
    <<Tile(30, 2, 0, 0, FALSE, FALSE), Tile(12, 8, 0, 1, FALSE, FALSE),
       Tile(22, 2, 0, 2, FALSE, FALSE), Tile(8, 8, 1, 0, FALSE, FALSE),
       Tile(1, 2, 1, 1, FALSE, FALSE), Tile(17, 8, 1, 2, FALSE, FALSE),
       Tile(24, 8, 1, 3, FALSE, FALSE), Tile(9, 2, 2, 0, FALSE, FALSE),
       Tile(6, 32, 2, 1, FALSE, FALSE), Tile(14, 2, 2, 2, FALSE, FALSE),
       Tile(20, 4, 2, 3, FALSE, FALSE), Tile(32, 8, 3, 0, FALSE, FALSE),
       Tile(27, 2, 3, 1, FALSE, FALSE), Tile(28, 16, 3, 2, FALSE, FALSE),
       Tile(34, 2, 3, 3, FALSE, FALSE), Tile(35, 4, 0, 3, TRUE, FALSE)>>,
    184, 184, FALSE, FALSE, 35,
    <<>>)

\* The same round after Move left: full board, no equal neighbours, gameOver set.
OverState ==
  SessionState(
    <<Tile(30, 2, 0, 0, FALSE, FALSE), Tile(12, 8, 0, 1, FALSE, FALSE),
       Tile(22, 2, 0, 2, FALSE, FALSE), Tile(35, 4, 0, 3, FALSE, FALSE),
       Tile(8, 8, 1, 0, FALSE, FALSE), Tile(1, 2, 1, 1, FALSE, FALSE),
       Tile(17, 16, 1, 2, FALSE, TRUE), Tile(9, 2, 2, 0, FALSE, FALSE),
       Tile(6, 32, 2, 1, FALSE, FALSE), Tile(14, 2, 2, 2, FALSE, FALSE),
       Tile(20, 4, 2, 3, FALSE, FALSE), Tile(32, 8, 3, 0, FALSE, FALSE),
       Tile(27, 2, 3, 1, FALSE, FALSE), Tile(28, 16, 3, 2, FALSE, FALSE),
       Tile(34, 2, 3, 3, FALSE, FALSE), Tile(36, 2, 1, 3, TRUE, FALSE)>>,
    200, 200, TRUE, FALSE, 36,
    <<>>)

\* Round two after OverState: NewGame(manual), then Move left and Move up.
SecondRoundState ==
  SessionState(
    <<Tile(1, 4, 0, 0, FALSE, FALSE), Tile(3, 4, 0, 3, FALSE, FALSE),
       Tile(4, 4, 0, 1, TRUE, FALSE)>>,
    4, 200, FALSE, FALSE, 4,
    <<[score |-> 200, triggeredBy |-> "manual"]>>)

\* Row 0 is [2,2,2,_]: a fresh board (2 at cells 0 and 13), Move up twice.
ThreeTwosState ==
  SessionState(
    <<Tile(1, 2, 0, 0, FALSE, FALSE), Tile(2, 2, 0, 1, FALSE, FALSE),
       Tile(3, 2, 0, 2, FALSE, FALSE), Tile(4, 2, 3, 3, TRUE, FALSE)>>,
    0, 0, FALSE, FALSE, 4,
    <<>>)

\* Row 0 is [2,2,2,2]: ThreeTwosState after one more Move up.
FourTwosState ==
  SessionState(
    <<Tile(1, 2, 0, 0, FALSE, FALSE), Tile(2, 2, 0, 1, FALSE, FALSE),
       Tile(3, 2, 0, 2, FALSE, FALSE), Tile(4, 2, 0, 3, FALSE, FALSE),
       Tile(5, 4, 3, 0, TRUE, FALSE)>>,
    0, 0, FALSE, FALSE, 5,
    <<>>)

\* Row 0 is [4,2,2,_]: a fresh board (4 at cell 0, 2 at cell 13), Move up twice.
FourTwoTwoState ==
  SessionState(
    <<Tile(1, 4, 0, 0, FALSE, FALSE), Tile(2, 2, 0, 1, FALSE, FALSE),
       Tile(3, 2, 0, 2, FALSE, FALSE), Tile(4, 4, 3, 3, TRUE, FALSE)>>,
    0, 0, FALSE, FALSE, 4,
    <<>>)

\* Eleventh round: ten short rounds were reset with a positive score.
FullHistoryState ==
  SessionState(
    <<Tile(1, 4, 0, 0, FALSE, TRUE), Tile(3, 2, 3, 3, TRUE, FALSE)>>,
    4, 4, FALSE, FALSE, 3,
    <<[score |-> 4, triggeredBy |-> "manual"], [score |-> 4, triggeredBy |-> "menu"], [score |-> 4, triggeredBy |-> "sensor"], [score |-> 4, triggeredBy |-> "manual"], [score |-> 4, triggeredBy |-> "menu"], [score |-> 4, triggeredBy |-> "sensor"], [score |-> 4, triggeredBy |-> "manual"], [score |-> 4, triggeredBy |-> "menu"], [score |-> 4, triggeredBy |-> "sensor"], [score |-> 4, triggeredBy |-> "manual"]>>)

\* The tabs screen after five short rounds reset with a positive score.
TabsFullHistoryState ==
  OnTabs(SessionState(
    <<Tile(1, 4, 0, 0, FALSE, TRUE), Tile(3, 2, 3, 3, TRUE, FALSE)>>,
    4, 4, FALSE, FALSE, 3,
    <<[score |-> 4, triggeredBy |-> "menu"], [score |-> 4, triggeredBy |-> "sensor"], [score |-> 4, triggeredBy |-> "manual"], [score |-> 4, triggeredBy |-> "menu"], [score |-> 4, triggeredBy |-> "manual"]>>))

\* After 1086 accepted moves of one round, won long since: two 2048 tiles
\* next to each other.
TwoTargetsState ==
  SessionState(
    <<Tile(1079, 8, 0, 0, FALSE, FALSE), Tile(128, 2048, 0, 1, FALSE, FALSE),
       Tile(1066, 16, 0, 2, FALSE, FALSE), Tile(1083, 8, 0, 3, FALSE, FALSE),
       Tile(1086, 4, 1, 0, FALSE, FALSE), Tile(592, 2048, 1, 1, FALSE, TRUE),
       Tile(1084, 4, 1, 2, FALSE, FALSE), Tile(1087, 4, 2, 0, FALSE, FALSE),
       Tile(1043, 64, 2, 1, FALSE, FALSE), Tile(1073, 32, 2, 2, FALSE, FALSE),
       Tile(1088, 4, 1, 3, TRUE, FALSE)>>,
    37376, 37376, FALSE, TRUE, 1088,
    <<>>)

RecordedStates ==
  {NearWinState,
   WonState,
   TwoTargetsState,
   WonNearOverState,
   WonOverState,
   FifteenTilesState,
   NearOverState,
   OverState,
   SecondRoundState,
   ThreeTwosState,
   FourTwosState,
   FourTwoTwoState,
   FullHistoryState,
   TabsFullHistoryState}

(***************************************************************************)
(* Specification: every input is handled to completion (handler, render,   *)
(* effects) before the next one arrives.                                    *)
(***************************************************************************)
\* Date.now() when the screen is mounted.  Only differences of times matter;
\* like any present time it lies more than the debounce interval after 0,
\* the initial lastShakeTimeRef.
StartTime == 10000

\* The state of the effect useEffect(() => registerShakeHandler(...), [...])
\* of the screen.
ShakeEffect(mounted, due, cleanup) ==
  [mounted |-> mounted, due |-> due, cleanup |-> cleanup]

Install(s) ==
  /\ tiles' = s.tiles
  /\ score' = s.score
  /\ bestScore' = s.bestScore
  /\ gameOver' = s.gameOver
  /\ hasWon' = s.hasWon
  /\ tileIdRef' = s.tileIdRef
  /\ scoreRef' = s.scoreRef
  /\ seenGameOver' = s.seenGameOver
  /\ recentRuns' = s.recentRuns
  /\ screen' = s.screen

Input(op, arg, draws) == [op |-> op, arg |-> arg, draws |-> draws]

NoResult == [tiles |-> <<>>, moved |-> FALSE, scoreGained |-> 0]

\* The session a screen starts with: useState(() => generateInitialTiles(...)).
FreshSessions ==
  LET home == {SessionState(generateInitialTiles(0, draws).tiles, 0, 0, FALSE, FALSE,
                            generateInitialTiles(0, draws).idRef, <<>>) :
                 draws \in InitialDraws}
  IN  home \cup {OnTabs(s) : s \in home}

Init ==
  \E s \in FreshSessions \cup RecordedStates :
    /\ tiles = s.tiles
    /\ score = s.score
    /\ bestScore = s.bestScore
    /\ gameOver = s.gameOver
    /\ hasWon = s.hasWon
    /\ tileIdRef = s.tileIdRef
    /\ scoreRef = s.scoreRef
    /\ seenGameOver = s.seenGameOver
    /\ recentRuns = s.recentRuns
    /\ screen = s.screen
    /\ pending = <<>>
    /\ last = [input |-> Input(IF s \in FreshSessions THEN "start" ELSE "recorded", "", <<>>),
               pre |-> s, result |-> NoResult]
    /\ inputs = 0
    /\ clock = StartTime
    /\ lastShakeTimeRef = 0
    /\ shakeHandlers = {1}
    /\ shakeEffect = ShakeEffect(TRUE, FALSE, 1)

Move(direction) ==
  /\ inputs < MaxInputs
  /\ LET res == moveTiles(tiles, direction)
     IN  \E u \in RandomDraws, w \in RandomDraws :
           /\ Install(render(handleMove(Session, direction, u, w)))
           /\ last' = [input |-> Input("move", direction, <<u, w>>), pre |-> Session,
                       result |-> res]
  /\ inputs' = inputs + 1
  /\ UNCHANGED <<pending, clock, lastShakeTimeRef,
                 shakeHandlers, shakeEffect>>

NewGame(reason) ==
  /\ inputs < MaxInputs
  /\ \E draws \in InitialDraws :
       /\ Install(render(handleNewGame(Session, reason, draws)))
       /\ last' = [input |-> Input("newgame", reason, draws), pre |-> Session,
                   result |-> NoResult]
  /\ inputs' = inputs + 1
  /\ UNCHANGED <<pending, clock, lastShakeTimeRef,
                 shakeHandlers, shakeEffect>>

Next ==
  \/ \E direction \in Directions : Move(direction)
  \/ \E reason \in GameResetReason : NewGame(reason)

Spec == Init /\ [][Next]_vars

(***************************************************************************)
(* Specification with rendering apart from the handlers.  A handler reads  *)
(* and writes the refs at once, and its setState calls are queued; the     *)
(* next render applies the queued updates hook by hook (tiles, score,      *)
(* bestScore, gameOver, hasWon; recentRuns in its own component), each     *)
(* hook's updates in the order they were queued, and rebuilds handleMove   *)
(* over the new gameOver; the effect that copies score into scoreRef runs  *)
(* after the render.  Inputs may arrive before the render and before the   *)
(* effect.                                                                 *)
(***************************************************************************)
\* A queued update of one useState hook: a value (kind "set") or an updater
\* function ("move": the updater of handleMove's setTiles; "add": the updater
\* of setScore; "or": the updater of setHasWon; "log": the updater of
\* setRecentRuns).
Update(hook, kind, value) == [hook |-> hook, kind |-> kind, value |-> value]

UpdatesOf(q, hook) == SelectSeq(q, LAMBDA up : up.hook = hook)

\* The setState calls of handleNewGame, after its ref accesses: scoreRef is
\* read, tileIdRef is reset and generateInitialTiles allocates from it.
callHandleNewGame(s, q, reason, draws) ==
  LET fresh == generateInitialTiles(0, draws)
  IN  [session |-> [s EXCEPT !.tileIdRef = fresh.idRef],
       queue |-> q \o <<Update("recentRuns", "log",
                               [score |-> s.scoreRef, triggeredBy |-> reason]),
                        Update("tiles", "set", fresh.tiles),
                        Update("score", "set", 0),
                        Update("gameOver", "set", FALSE),
                        Update("hasWon", "set", FALSE)>>]

\* What the updater of handleMove's setTiles returns and calls once moveTiles
\* has returned res with moved set: the board with the spawned tile, the id
\* counter, and its setState calls.
acceptMove(res, idRef, u, w) ==
  LET spawn == addRandomTile(res.tiles, idRef, u, w)
  IN  [tiles |-> spawn.tiles, idRef |-> spawn.idRef,
       calls |-> <<Update("score", "add", res.scoreGained),
                   Update("hasWon", "or", containsTargetTile(spawn.tiles, WIN_TARGET)),
                   Update("gameOver", "set", ~hasAvailableMoves(spawn.tiles))>>]

\* The updater of handleMove's setTiles run on previousTiles with the id
\* counter at idRef (moveTiles is called once).
tilesUpdater(previousTiles, idRef, direction, u, w) ==
  CHOOSE run \in
    {IF ~res.moved
     THEN [tiles |-> previousTiles, idRef |-> idRef, calls |-> <<>>]
     ELSE acceptMove(res, idRef, u, w) :
       res \in {moveTiles(previousTiles, direction)}} : TRUE

\* handleMove: the guard reads the gameOver of the last render.  The updater
\* given to setTiles is queued; when nothing is queued React may run it at
\* once on the current state (eager) and queue its result.
callHandleMove(s, q, direction, u, w, eager) ==
  IF s.seenGameOver
  THEN [session |-> s, queue |-> q]
  ELSE IF eager
       THEN CHOOSE call \in
              {[session |-> [s EXCEPT !.tileIdRef = run.idRef],
                queue |-> IF run.calls = <<>> THEN q
                          ELSE q \o <<Update("tiles", "set", run.tiles)>> \o run.calls] :
                 run \in {tilesUpdater(s.tiles, s.tileIdRef, direction, u, w)}} : TRUE
       ELSE [session |-> s,
             queue |-> q \o <<Update("tiles", "move",
                                     [direction |-> direction, u |-> u, w |-> w])>>]

\* The tiles hook processes its queue from update i on; acc is the state so
\* far, the id counter and the setState calls made by the updaters that ran.
RECURSIVE renderTiles(_, _, _)
renderTiles(ups, i, acc) ==
  IF i > Len(ups)
  THEN acc
  ELSE IF ups[i].kind = "set"
       THEN renderTiles(ups, i + 1, [acc EXCEPT !.tiles = ups[i].value])
       ELSE CHOOSE out \in
              {renderTiles(ups, i + 1,
                           [tiles |-> run.tiles, idRef |-> run.idRef,
                            calls |-> acc.calls \o run.calls]) :
                 run \in {tilesUpdater(acc.tiles, acc.idRef, ups[i].value.direction,
                                       ups[i].value.u, ups[i].value.w)}} : TRUE

\* The score hook processes its queue from update i on; the updater of
\* setScore calls setBestScore with the score it returns.
RECURSIVE renderScore(_, _, _)
renderScore(ups, i, acc) ==
  IF i > Len(ups)
  THEN acc
  ELSE IF ups[i].kind = "set"
       THEN renderScore(ups, i + 1, [acc EXCEPT !.score = ups[i].value])
       ELSE LET nextScore == acc.score + ups[i].value
            IN  renderScore(ups, i + 1,
                            [score |-> nextScore,
                             calls |-> Append(acc.calls, Update("bestScore", "max", nextScore))])

\* A hook with plain updates processes its queue from update i on.
RECURSIVE renderHook(_, _, _, _)
renderHook(ups, i, state, onTabs) ==
  IF i > Len(ups)
  THEN state
  ELSE renderHook(ups, i + 1,
         CASE ups[i].kind = "set" -> ups[i].value
           [] ups[i].kind = "or" -> (state \/ ups[i].value)
           [] ups[i].kind = "max" -> Max(state, ups[i].value)
           [] ups[i].kind = "log" ->
                IF onTabs
                THEN setRecentRuns(state, ups[i].value.score, ups[i].value.triggeredBy)
                ELSE addRecentRun(state, ups[i].value.score, ups[i].value.triggeredBy),
         onTabs)

\* The hooks after the tiles hook, t being what the tiles hook has returned:
\* each processes the updates queued by handlers, then the ones queued by the
\* updaters that ran in this render.
renderOthers(s, q, t) ==
  LET onTabs == s.screen = "tabs"
      sc == renderScore(UpdatesOf(q, "score") \o UpdatesOf(t.calls, "score"), 1,
                        [score |-> s.score, calls |-> <<>>])
      over == renderHook(UpdatesOf(q, "gameOver") \o UpdatesOf(t.calls, "gameOver"), 1,
                         s.gameOver, onTabs)
  IN  [s EXCEPT !.tiles = t.tiles,
                !.tileIdRef = t.idRef,
                !.score = sc.score,
                !.bestScore = renderHook(sc.calls, 1, s.bestScore, onTabs),
                !.gameOver = over,
                !.hasWon = renderHook(UpdatesOf(q, "hasWon") \o UpdatesOf(t.calls, "hasWon"),
                                      1, s.hasWon, onTabs),
                !.recentRuns = renderHook(UpdatesOf(q, "recentRuns"), 1, s.recentRuns, onTabs),
                !.seenGameOver = over]

\* The render of the queue q: the tiles hook first, then the others with what
\* it returned.
renderQueue(s, q) ==
  CHOOSE rendered \in
    {renderOthers(s, q, t) :
       t \in {renderTiles(UpdatesOf(q, "tiles"), 1,
                          [tiles |-> s.tiles, idRef |-> s.tileIdRef, calls |-> <<>>])}} : TRUE

\* Sessions the inputs of this specification start from.
StartSessions ==
  FreshSessions \cup {SecondRoundState, NearOverState, OverState, NearWinState,
                      OnTabs(SecondRoundState)}

InitAsync ==
  \E s \in StartSessions :
    /\ tiles = s.tiles
    /\ score = s.score
    /\ bestScore = s.bestScore
    /\ gameOver = s.gameOver
    /\ hasWon = s.hasWon
    /\ tileIdRef = s.tileIdRef
    /\ scoreRef = s.scoreRef
    /\ seenGameOver = s.seenGameOver
    /\ recentRuns = s.recentRuns
    /\ screen = s.screen
    /\ pending = <<>>
    /\ last = [input |-> Input(IF s \in FreshSessions THEN "start" ELSE "recorded", "", <<>>),
               pre |-> s, queued |-> <<>>, before |-> Input("", "", <<>>)]
    /\ inputs = 0
    /\ clock = StartTime
    /\ lastShakeTimeRef = 0
    /\ shakeHandlers = {1}
    /\ shakeEffect = ShakeEffect(TRUE, FALSE, 1)

\* handleMove is called: by the keydown listener or on release of a pan.
IssueMove(direction) ==
  /\ inputs < MaxInputs
  /\ \E u \in RandomDraws, w \in RandomDraws,
        eager \in IF pending = <<>> THEN BOOLEAN ELSE {FALSE} :
       \E call \in {callHandleMove(Session, pending, direction, u, w, eager)} :
           /\ Install(call.session)
           /\ pending' = call.queue
           /\ last' = [input |-> Input("move", direction, <<u, w>>), pre |-> Session,
                       queued |-> pending, before |-> last.input]
  /\ inputs' = inputs + 1
  /\ UNCHANGED <<clock, lastShakeTimeRef,
                 shakeHandlers, shakeEffect>>

\* handleNewGame is called: by the New Game button, a menu entry or a shake.
IssueNewGame(reason) ==
  /\ inputs < MaxInputs
  /\ \E draws \in InitialDraws :
       \E call \in {callHandleNewGame(Session, pending, reason, draws)} :
           /\ Install(call.session)
           /\ pending' = call.queue
           /\ last' = [input |-> Input("newgame", reason, draws), pre |-> Session,
                       queued |-> pending, before |-> last.input]
  /\ inputs' = inputs + 1
  /\ UNCHANGED <<clock, lastShakeTimeRef,
                 shakeHandlers, shakeEffect>>

\* The component renders with the queued updates.
Render ==
  /\ pending # <<>>
  /\ \E rendered \in {renderQueue(Session, pending)} : Install(rendered)
  /\ pending' = <<>>
  /\ UNCHANGED <<last, inputs, clock, lastShakeTimeRef,
                 shakeHandlers, shakeEffect>>

\* useEffect(() => { scoreRef.current = score }, [score]) runs for the score
\* of the last render.
Effect ==
  /\ scoreRef # score
  /\ scoreRef' = score
  /\ UNCHANGED <<tiles, score, bestScore, gameOver, hasWon, tileIdRef, seenGameOver,
                 recentRuns, screen, pending, last, inputs, clock, lastShakeTimeRef,
                 shakeHandlers, shakeEffect>>

NextAsync ==
  \/ \E direction \in Directions : IssueMove(direction)
  \/ \E reason \in GameResetReason : IssueNewGame(reason)
  \/ Render
  \/ Effect

SpecAsync == InitAsync /\ [][NextAsync]_vars

(***************************************************************************)
(* Specification of moveTiles as a function: it is applied to enumerated   *)
(* well-formed boards.  A board has one or two occupied lines (rows or     *)
(* columns), the first with every pattern of values over the four cells,   *)
(* the second empty, equal to the first, its mirror image, or all 2.       *)
(***************************************************************************)
RECURSIVE Pow2(_)
Pow2(k) == IF k = 0 THEN 1 ELSE 2 * Pow2(k - 1)

CellValues == {0} \cup {Pow2(k) : k \in 1..MaxExponent}

LinePatterns == [1..BOARD_SIZE -> CellValues]

SecondLines(p) ==
  {[k \in 1..BOARD_SIZE |-> 0], p, [k \in 1..BOARD_SIZE |-> p[BOARD_SIZE + 1 - k]],
   [k \in 1..BOARD_SIZE |-> 2]}

\* The value grid with pattern p on line a and q on line b (rows, or columns
\* when transposed), by cell in row-major order.
TwoLineGrid(a, p, b, q, transposed) ==
  [k \in 1..(BOARD_SIZE * BOARD_SIZE) |->
     LET line == IF transposed THEN AllCells[k].col ELSE AllCells[k].row
         pos == IF transposed THEN AllCells[k].row ELSE AllCells[k].col
     IN  IF line = a THEN p[pos + 1] ELSE IF line = b THEN q[pos + 1] ELSE 0]

\* The tile array of a value grid: one tile per non-empty cell, in row-major
\* order with ids 1, 2, ..., or in the opposite order when reversed.
BoardOf(grid, reversed) ==
  LET occupied == SelectSeq([k \in 1..(BOARD_SIZE * BOARD_SIZE) |-> k],
                            LAMBDA k : grid[k] # 0)
      n == Len(occupied)
  IN  [i \in 1..n |->
         LET k == IF reversed THEN occupied[n + 1 - i] ELSE occupied[i]
         IN  Tile(i, grid[k], AllCells[k].row, AllCells[k].col, FALSE, FALSE)]

InitBoards ==
  \E p \in LinePatterns :
    \E q \in SecondLines(p), ab \in {<<0, 1>>, <<1, 3>>},
       transposed \in BOOLEAN, reversed \in BOOLEAN :
      LET b == BoardOf(TwoLineGrid(ab[1], p, ab[2], q, transposed), reversed)
          s == SessionState(b, 0, 0, FALSE, FALSE, Len(b), <<>>)
      IN  /\ Len(b) > 0
          /\ tiles = b
          /\ score = 0
          /\ bestScore = 0
          /\ gameOver = FALSE
          /\ hasWon = FALSE
          /\ tileIdRef = Len(b)
          /\ scoreRef = 0
          /\ seenGameOver = FALSE
          /\ recentRuns = <<>>
          /\ screen = "home"
          /\ pending = <<>>
          /\ last = [input |-> Input("start", "", <<>>), pre |-> s, result |-> NoResult]
          /\ inputs = 0
          /\ clock = StartTime
          /\ lastShakeTimeRef = 0
          /\ shakeHandlers = {1}
          /\ shakeEffect = ShakeEffect(TRUE, FALSE, 1)

\* moveTiles applied to the board; the board becomes the tiles it returns.
Collapse(direction) ==
  /\ inputs < MaxCollapses
  /\ \E res \in {moveTiles(tiles, direction)} :
       /\ tiles' = res.tiles
       /\ last' = [input |-> Input("move", direction, <<>>), pre |-> Session,
                   result |-> res]
  /\ inputs' = inputs + 1
  /\ UNCHANGED <<score, bestScore, gameOver, hasWon, tileIdRef, scoreRef,
                 seenGameOver, recentRuns, screen, pending, clock, lastShakeTimeRef,
                 shakeHandlers, shakeEffect>>

NextBoards == \E direction \in Directions : Collapse(direction)

SpecBoards == InitBoards /\ [][NextBoards]_vars

(***************************************************************************)
(* Specification of containsTargetTile as a function: it is applied, for   *)
(* each target, to enumerated boards with one occupied line that holds     *)
(* every pattern of the values below the target, at it and above it.       *)
(***************************************************************************)
\* Number of times containsTargetTile is applied in one behaviour.
MaxChecks == 1

TargetCellValues == {0, 2, 1024, 2048, 4096}

Targets == {4, 1024, 2048, 4096}

InitTargets ==
  \E p \in [1..BOARD_SIZE -> TargetCellValues], line \in {0, 3},
     transposed \in BOOLEAN, reversed \in BOOLEAN :
    LET b == BoardOf(TwoLineGrid(line, p, line, p, transposed), reversed)
        s == SessionState(b, 0, 0, FALSE, FALSE, Len(b), <<>>)
    IN  /\ Len(b) > 0
        /\ tiles = b
        /\ score = 0
        /\ bestScore = 0
        /\ gameOver = FALSE
        /\ hasWon = FALSE
        /\ tileIdRef = Len(b)
        /\ scoreRef = 0
        /\ seenGameOver = FALSE
        /\ recentRuns = <<>>
        /\ screen = "home"
        /\ pending = <<>>
        /\ last = [input |-> Input("start", "", <<>>), pre |-> s, result |-> NoResult]
        /\ inputs = 0
        /\ clock = StartTime
        /\ lastShakeTimeRef = 0
        /\ shakeHandlers = {1}
        /\ shakeEffect = ShakeEffect(TRUE, FALSE, 1)

\* containsTargetTile applied to the board; its answer is recorded.
CheckTarget(target) ==
  /\ inputs < MaxChecks
  /\ last' = [input |-> Input("containsTargetTile", target, <<>>), pre |-> Session,
              result |-> [found |-> containsTargetTile(tiles, target)]]
  /\ inputs' = inputs + 1
  /\ UNCHANGED <<tiles, score, bestScore, gameOver, hasWon, tileIdRef, scoreRef,
                 seenGameOver, recentRuns, screen, pending, clock, lastShakeTimeRef,
                 shakeHandlers, shakeEffect>>

NextTargets == \E target \in Targets : CheckTarget(target)

SpecTargets == InitTargets /\ [][NextTargets]_vars

(***************************************************************************)
(* Specification of addRandomTile as a function: it is applied, several    *)
(* times in a row, to the boards of the fresh and recorded sessions, full  *)
(* boards among them, with the session's id counter.                       *)
(***************************************************************************)
\* Number of times addRandomTile is applied in one behaviour.
MaxSpawns == 2

InitSpawn ==
  \E s \in FreshSessions \cup RecordedStates :
    /\ tiles = s.tiles
    /\ score = s.score
    /\ bestScore = s.bestScore
    /\ gameOver = s.gameOver
    /\ hasWon = s.hasWon
    /\ tileIdRef = s.tileIdRef
    /\ scoreRef = s.scoreRef
    /\ seenGameOver = s.seenGameOver
    /\ recentRuns = s.recentRuns
    /\ screen = s.screen
    /\ pending = <<>>
    /\ last = [input |-> Input("recorded", "", <<>>), pre |-> s, result |-> NoResult]
    /\ inputs = 0
    /\ clock = StartTime
    /\ lastShakeTimeRef = 0
    /\ shakeHandlers = {1}
    /\ shakeEffect = ShakeEffect(TRUE, FALSE, 1)

\* addRandomTile applied to the board with getNextTileId over tileIdRef; the
\* board becomes the tiles it returns.
Spawn ==
  /\ inputs < MaxSpawns
  /\ \E u \in RandomDraws, w \in RandomDraws :
       LET spawn == addRandomTile(tiles, tileIdRef, u, w)
       IN  /\ tiles' = spawn.tiles
           /\ tileIdRef' = spawn.idRef
           /\ last' = [input |-> Input("addRandomTile", "", <<u, w>>), pre |-> Session,
                       result |-> NoResult]
  /\ inputs' = inputs + 1
  /\ UNCHANGED <<score, bestScore, gameOver, hasWon, scoreRef, seenGameOver,
                 recentRuns, screen, pending, clock, lastShakeTimeRef,
                 shakeHandlers, shakeEffect>>

NextSpawn == Spawn

SpecSpawn == InitSpawn /\ [][NextSpawn]_vars

(***************************************************************************)
(* Specification of the shake reset: the accelerometer listener (of        *)
(* GameProvider for the home screen, of the screen itself on the tabs      *)
(* screen) is called with one reading after the other, the clock advancing *)
(* in between; a reading it accepts as a shake calls handleNewGame         *)
(* ('sensor'), which is handled to completion.  The sensorData and         *)
(* notification states it also sets are display only and left out.         *)
(***************************************************************************)
\* Number of accelerometer readings delivered in one behaviour.
MaxSamples == 3

\* Readings (x, y, z) in tenths of g: at rest, exactly at the threshold
\* (magnitude 1.8), and two above it.
SensorVectors == {<<0, 0, 10>>, <<18, 0, 0>>, <<10, 10, 12>>, <<0, 0, 30>>}

\* Milliseconds between two readings (the update interval is 120 ms; the
\* listener may be called late).
SampleGaps == {120, 1000, 2200, 2201}

\* magnitude > SHAKE_THRESHOLD for magnitude = Math.sqrt(x*x + y*y + z*z),
\* decided on the squares.
aboveThreshold(vector) ==
  vector[1] * vector[1] + vector[2] * vector[2] + vector[3] * vector[3]
    > SHAKE_THRESHOLD * SHAKE_THRESHOLD

\* Mutant of shakeAccepted: a shake is accepted again when exactly the
\* debounce interval has passed (>= for >).
shakeAcceptedAtInterval(vector, now, lastShakeTime) ==
  aboveThreshold(vector) /\ now - lastShakeTime >= SHAKE_DEBOUNCE_MS

\* The condition of the listener under which it takes the reading for a shake.
shakeAccepted(vector, now, lastShakeTime) ==
  aboveThreshold(vector) /\ now - lastShakeTime > SHAKE_DEBOUNCE_MS

InitShake ==
  \E s \in FreshSessions \cup {SecondRoundState, OnTabs(SecondRoundState), OverState} :
    /\ tiles = s.tiles
    /\ score = s.score
    /\ bestScore = s.bestScore
    /\ gameOver = s.gameOver
    /\ hasWon = s.hasWon
    /\ tileIdRef = s.tileIdRef
    /\ scoreRef = s.scoreRef
    /\ seenGameOver = s.seenGameOver
    /\ recentRuns = s.recentRuns
    /\ screen = s.screen
    /\ pending = <<>>
    /\ last = [input |-> Input("start", <<>>, <<>>), pre |-> s, window |-> 0,
               accepted |-> <<>>, rejected |-> <<>>, calls |-> 0,
               effect |-> ShakeEffect(TRUE, FALSE, 1)]
    /\ inputs = 0
    /\ clock = StartTime
    /\ lastShakeTimeRef = 0
    /\ shakeHandlers = {1}
    /\ shakeEffect = ShakeEffect(TRUE, FALSE, 1)

\* shakeHandlers.current.forEach(handler => handler()) for calls handlers in
\* the set, each the screen's () => { handleNewGame('sensor') }: the calls
\* follow each other with no render in between.
RECURSIVE callShakeHandlers(_, _, _)
callShakeHandlers(s, calls, draws) ==
  IF calls = 0
  THEN s
  ELSE callShakeHandlers(handleNewGame(s, "sensor", draws), calls - 1, draws)

\* The listener is called with a reading, gap milliseconds after the reading
\* before it.  A reading taken for a shake calls every registered handler (on
\* the tabs screen, whose listener is its own, handleNewGame itself).  The
\* history keeps the times of the readings accepted as shakes and of those
\* above the threshold that were not, the number of handlers called and the
\* effect as the reading found it.
Sample(vector, gap) ==
  /\ inputs < MaxSamples
  /\ clock' = clock + gap
  /\ \E now \in {clock + gap},
        calls \in {IF screen = "tabs" THEN 1 ELSE Cardinality(shakeHandlers)} :
       /\ IF shakeAccepted(vector, now, lastShakeTimeRef)
          THEN /\ lastShakeTimeRef' = now
               /\ \E draws \in (IF calls = 0 THEN {<<>>} ELSE InitialDraws) :
                    /\ Install(IF calls = 0 THEN Session
                               ELSE render(callShakeHandlers(Session, calls, draws)))
                    /\ last' = [input |-> Input("sample", vector, draws), pre |-> Session,
                                window |-> lastShakeTimeRef,
                                accepted |-> Append(last.accepted, now),
                                rejected |-> last.rejected,
                                calls |-> calls,
                                effect |-> shakeEffect]
          ELSE /\ UNCHANGED <<lastShakeTimeRef, tiles, score, bestScore, gameOver, hasWon,
                              tileIdRef, scoreRef, seenGameOver, recentRuns, screen>>
               /\ last' = [input |-> Input("sample", vector, <<>>), pre |-> Session,
                           window |-> lastShakeTimeRef,
                           accepted |-> last.accepted,
                           rejected |-> IF aboveThreshold(vector)
                                        THEN Append(last.rejected, now)
                                        ELSE last.rejected,
                           calls |-> 0,
                           effect |-> shakeEffect]
  /\ inputs' = inputs + 1
  /\ UNCHANGED <<pending, shakeHandlers, shakeEffect>>

NextShake == \E vector \in SensorVectors, gap \in SampleGaps : Sample(vector, gap)

SpecShake == InitShake /\ [][NextShake]_vars

(***************************************************************************)
(* Specification of the shake-handler set: the home screen registers its   *)
(* handler in an effect, GameProvider's listener calls the registered      *)
(* handlers.  The effect runs after the commit that mounted the screen or  *)
(* changed handleNewGame or registerShakeHandler: first the cleanup the    *)
(* effect returned the time before, then the effect; the cleanup also runs *)
(* when the screen is unmounted.  Effects run to completion: no reading    *)
(* arrives between a cleanup and the registration that follows it.         *)
(***************************************************************************)
\* Number of events (readings, mounts, renders, effects) in one behaviour.
MaxEvents == 3

\* Milliseconds between two readings in this specification.
HandlerGaps == {120, 2201}

\* shakeHandlers.current.add(handler)
registerShakeHandler(handlers, handler) == handlers \cup {handler}

\* Mutant of unregisterShakeHandler: the cleanup deletes nothing (the effect
\* does not return what registerShakeHandler returns).
unregisterShakeHandlerNothing(handlers, handler) == handlers

\* The function registerShakeHandler returns: shakeHandlers.current.delete(handler)
unregisterShakeHandler(handlers, handler) == handlers \ {handler}

\* The arrow function the effect creates: an identity no registered handler
\* has.
newShakeHandler == 1 + MaxOf({0, shakeEffect.cleanup} \cup shakeHandlers)

\* The set after the cleanup held by the effect, if any, has run.
afterCleanup ==
  IF shakeEffect.cleanup = 0 THEN shakeHandlers
  ELSE unregisterShakeHandler(shakeHandlers, shakeEffect.cleanup)

InitHandlers ==
  \E s \in {f \in FreshSessions : f.screen = "home"} \cup {SecondRoundState},
     registered \in BOOLEAN :
    /\ tiles = s.tiles
    /\ score = s.score
    /\ bestScore = s.bestScore
    /\ gameOver = s.gameOver
    /\ hasWon = s.hasWon
    /\ tileIdRef = s.tileIdRef
    /\ scoreRef = s.scoreRef
    /\ seenGameOver = s.seenGameOver
    /\ recentRuns = s.recentRuns
    /\ screen = s.screen
    /\ pending = <<>>
    /\ shakeHandlers = IF registered THEN {1} ELSE {}
    /\ shakeEffect = IF registered THEN ShakeEffect(TRUE, FALSE, 1)
                     ELSE ShakeEffect(FALSE, FALSE, 0)
    /\ last = [input |-> Input("start", <<>>, <<>>), pre |-> s, window |-> 0,
               accepted |-> <<>>, rejected |-> <<>>, calls |-> 0,
               effect |-> IF registered THEN ShakeEffect(TRUE, FALSE, 1)
                          ELSE ShakeEffect(FALSE, FALSE, 0)]
    /\ inputs = 0
    /\ clock = StartTime
    /\ lastShakeTimeRef = 0

\* What an event other than a reading leaves in the history.
Lifecycle(op) ==
  /\ last' = [last EXCEPT !.input = Input(op, <<>>, <<>>), !.pre = Session,
                          !.calls = 0, !.effect = shakeEffect]
  /\ inputs' = inputs + 1
  /\ UNCHANGED <<pending, clock, lastShakeTimeRef>>

\* The home screen is mounted: a new session (the history is GameProvider's
\* and stays), its effect is due.
MountScreen ==
  /\ inputs < MaxEvents
  /\ ~shakeEffect.mounted
  /\ \E s \in {f \in FreshSessions : f.screen = "home"} :
       Install([s EXCEPT !.recentRuns = recentRuns])
  /\ shakeEffect' = ShakeEffect(TRUE, TRUE, 0)
  /\ UNCHANGED shakeHandlers
  /\ Lifecycle("mount")

\* A render of the mounted screen with another handleNewGame or
\* registerShakeHandler than the effect has seen: the effect is due again.
ChangeHandler ==
  /\ inputs < MaxEvents
  /\ shakeEffect.mounted
  /\ ~shakeEffect.due
  /\ shakeEffect' = [shakeEffect EXCEPT !.due = TRUE]
  /\ UNCHANGED <<tiles, score, bestScore, gameOver, hasWon, tileIdRef, scoreRef,
                 seenGameOver, recentRuns, screen, shakeHandlers>>
  /\ Lifecycle("render")

\* The effect runs: the cleanup of the run before, then
\* registerShakeHandler(() => { handleNewGame('sensor') }).
RunEffect ==
  /\ inputs < MaxEvents
  /\ shakeEffect.mounted
  /\ shakeEffect.due
  /\ \E handler \in {newShakeHandler} :
       /\ shakeHandlers' = registerShakeHandler(afterCleanup, handler)
       /\ shakeEffect' = ShakeEffect(TRUE, FALSE, handler)
  /\ UNCHANGED <<tiles, score, bestScore, gameOver, hasWon, tileIdRef, scoreRef,
                 seenGameOver, recentRuns, screen>>
  /\ Lifecycle("effect")

\* The screen is unmounted: the cleanup runs.
UnmountScreen ==
  /\ inputs < MaxEvents
  /\ shakeEffect.mounted
  /\ shakeHandlers' = afterCleanup
  /\ shakeEffect' = ShakeEffect(FALSE, FALSE, 0)
  /\ UNCHANGED <<tiles, score, bestScore, gameOver, hasWon, tileIdRef, scoreRef,
                 seenGameOver, recentRuns, screen>>
  /\ Lifecycle("unmount")

NextHandlers ==
  \/ \E vector \in SensorVectors, gap \in HandlerGaps :
       inputs < MaxEvents /\ Sample(vector, gap)
  \/ MountScreen
  \/ ChangeHandler
  \/ RunEffect
  \/ UnmountScreen

SpecHandlers == InitHandlers /\ [][NextHandlers]_vars

(***************************************************************************)
(* Specification of hasAvailableMoves as a function: it is applied to the  *)
(* boards of the fresh and recorded sessions and to enumerated boards.  An *)
(* enumerated board is a full board without equal neighbours (2 and 4      *)
(* alternating) on which up to two cells are overwritten, by 2, 4 or 8 or  *)
(* by nothing: full boards with no equal pair, with one equal pair in      *)
(* every place and direction, with several, and boards of 14 or 15 tiles.  *)
(***************************************************************************)
\* Number of times hasAvailableMoves is applied in one behaviour.
MaxScans == 1

\* What a cell is overwritten with, 0 for an empty cell.
OverwriteValues == {0, 2, 4, 8}

\* The value grid with 2 and 4 alternating (2 on the cells whose row + col
\* has the given parity), cells c1 and c2 overwritten with v1 and v2.
ScanGrid(parity, c1, v1, c2, v2) ==
  [k \in 1..(BOARD_SIZE * BOARD_SIZE) |->
     IF k = c2 THEN v2
     ELSE IF k = c1 THEN v1
     ELSE IF (AllCells[k].row + AllCells[k].col) % 2 = parity THEN 2 ELSE 4]

ScanBoards ==
  {BoardOf(ScanGrid(parity, c1, v1, c2, v2), reversed) :
     parity \in {0, 1}, c1 \in 1..(BOARD_SIZE * BOARD_SIZE), v1 \in OverwriteValues,
     c2 \in 1..(BOARD_SIZE * BOARD_SIZE), v2 \in OverwriteValues, reversed \in BOOLEAN}
  \cup {s.tiles : s \in FreshSessions \cup RecordedStates}

InitScan ==
  \E b \in ScanBoards :
    /\ tiles = b
    /\ score = 0
    /\ bestScore = 0
    /\ gameOver = FALSE
    /\ hasWon = FALSE
    /\ tileIdRef = MaxOf({b[i].id : i \in DOMAIN b})
    /\ scoreRef = 0
    /\ seenGameOver = FALSE
    /\ recentRuns = <<>>
    /\ screen = "home"
    /\ pending = <<>>
    /\ last = [input |-> Input("start", "", <<>>),
               pre |-> SessionState(b, 0, 0, FALSE, FALSE, MaxOf({b[i].id : i \in DOMAIN b}), <<>>),
               result |-> NoResult]
    /\ inputs = 0
    /\ clock = StartTime
    /\ lastShakeTimeRef = 0
    /\ shakeHandlers = {1}
    /\ shakeEffect = ShakeEffect(TRUE, FALSE, 1)

\* hasAvailableMoves applied to the board; its answer is recorded.
Scan ==
  /\ inputs < MaxScans
  /\ last' = [input |-> Input("hasAvailableMoves", "", <<>>), pre |-> Session,
              result |-> [available |-> hasAvailableMoves(tiles)]]
  /\ inputs' = inputs + 1
  /\ UNCHANGED <<tiles, score, bestScore, gameOver, hasWon, tileIdRef, scoreRef,
                 seenGameOver, recentRuns, screen, pending, clock, lastShakeTimeRef,
                 shakeHandlers, shakeEffect>>

NextScan == Scan

SpecScan == InitScan /\ [][NextScan]_vars

(***************************************************************************)
(* Specification of moveTiles and addRandomTile over tile objects.  A tile *)
(* is an object that slideRow and slideColumn write to in place; the heap  *)
(* is the sequence of the tile objects allocated so far, the reference of  *)
(* an object is its index, and an array is a sequence of references.  The  *)
(* caller's board is the array of the references 1..n; tiles is what the   *)
(* caller reads through it.                                                *)
(***************************************************************************)
\* Number of calls made in one behaviour.
MaxCalls == 1

\* The objects an array refers to.
deref(heap, refs) == [k \in 1..Len(refs) |-> heap[refs[k]]]

\* Mutant of mapCopies: no object is allocated, the array of the same
\* references is returned (tiles.map(tile => tile)).
mapCopiesSharing(heap, refs, clear) == [heap |-> heap, refs |-> refs]

\* refs.map(tile => ({...tile})), or with isNew: false, justMerged: false
\* when clear: one new object per element, allocated behind the heap.
mapCopies(heap, refs, clear) ==
  [heap |-> heap \o [k \in 1..Len(refs) |->
                       IF clear
                       THEN [heap[refs[k]] EXCEPT !.isNew = FALSE, !.justMerged = FALSE]
                       ELSE heap[refs[k]]],
   refs |-> [k \in 1..Len(refs) |-> Len(heap) + k]]

\* Array.prototype.sort on an array of references.
sortRefs(heap, refs, order) ==
  LET keyed == [k \in 1..Len(refs) |->
                  [ref |-> refs[k], id |-> heap[refs[k]].id,
                   row |-> heap[refs[k]].row, col |-> heap[refs[k]].col]]
      sorted == sort(keyed, order)
  IN  [k \in 1..Len(refs) |-> sorted[k].ref]

\* grid after clones.forEach(tile => grid[tile.row][tile.col] = tile): the
\* reference held by each cell (cells in row-major order), 0 for null.
gridOf(heap, clones) ==
  [k \in 1..(BOARD_SIZE * BOARD_SIZE) |->
     LET i == gridIndex(deref(heap, clones), AllCells[k].row, AllCells[k].col)
     IN  IF i = 0 THEN 0 ELSE clones[i]]

\* rowTiles (columnTiles): the references of one line of the grid, in scan
\* order.
lineRefs(grid, line, horizontal) ==
  LET cells == [k \in 1..BOARD_SIZE |->
                  IF horizontal THEN grid[line * BOARD_SIZE + k]
                  ELSE grid[(k - 1) * BOARD_SIZE + line + 1]]
  IN  SelectSeq(cells, LAMBDA x : x # 0)

\* The for loop of slideRow (direction left/right) and of slideColumn
\* (up/down) from scan position i on, writing to the objects of sorted in
\* place; acc is (heap, result, moved, score).
RECURSIVE slideInPlaceFrom(_, _, _, _, _, _)
slideInPlaceFrom(sorted, line, direction, i, targetIndex, acc) ==
  IF i > Len(sorted)
  THEN acc
  ELSE LET tile == acc.heap[sorted[i]]
           horizontal == direction \in {"left", "right"}
           target == IF direction \in {"left", "up"} THEN targetIndex
                     ELSE BOARD_SIZE - 1 - targetIndex
           targetRow == IF horizontal THEN line ELSE target
           targetCol == IF horizontal THEN target ELSE line
           merge == i + 1 <= Len(sorted) /\ acc.heap[sorted[i + 1]].value = tile.value
           value == IF merge THEN tile.value * 2 ELSE tile.value
           out == [tile EXCEPT !.value = value, !.justMerged = merge,
                               !.row = targetRow, !.col = targetCol]
       IN  slideInPlaceFrom(sorted, line, direction,
             IF merge THEN i + 2 ELSE i + 1,
             targetIndex + 1,
             [heap |-> [acc.heap EXCEPT ![sorted[i]] = out],
              tiles |-> Append(acc.tiles, sorted[i]),
              moved |-> acc.moved \/ merge \/ tile.col # targetCol \/ tile.row # targetRow,
              score |-> acc.score + (IF merge THEN value ELSE 0)])

\* slideRow / slideColumn on the references of one line.
slideInPlace(heap, these, line, direction) ==
  LET order == CASE direction = "left" -> "colAscending"
                 [] direction = "right" -> "colDescending"
                 [] direction = "up" -> "rowAscending"
                 [] direction = "down" -> "rowDescending"
  IN  slideInPlaceFrom(sortRefs(heap, these, order), line, direction, 1, 0,
                       [heap |-> heap, tiles |-> <<>>, moved |-> FALSE, score |-> 0])

\* The loop of moveTiles over the rows (columns) from line on; acc is (heap,
\* updatedTiles, moved, scoreGained).  Every collapsed tile is pushed as a
\* copy: updatedTiles.push({...tile}).
RECURSIVE collapseInPlaceFrom(_, _, _, _)
collapseInPlaceFrom(grid, direction, line, acc) ==
  IF line >= BOARD_SIZE
  THEN acc
  ELSE LET these == lineRefs(grid, line, direction \in {"left", "right"})
           res == slideInPlace(acc.heap, these, line, direction)
           pushed == mapCopies(res.heap, res.tiles, FALSE)
       IN  IF Len(these) = 0
           THEN collapseInPlaceFrom(grid, direction, line + 1, acc)
           ELSE collapseInPlaceFrom(grid, direction, line + 1,
                  [heap |-> pushed.heap,
                   tiles |-> acc.tiles \o pushed.refs,
                   moved |-> acc.moved \/ res.moved,
                   scoreGained |-> acc.scoreGained + res.score])

\* moveTiles called with the array board on the heap: the heap it leaves and
\* the array, moved and scoreGained it returns.
moveTilesInPlace(heap, board, direction) ==
  LET clones == mapCopies(heap, board, TRUE)
      res == collapseInPlaceFrom(gridOf(clones.heap, clones.refs), direction, 0,
               [heap |-> clones.heap, tiles |-> <<>>, moved |-> FALSE,
                scoreGained |-> 0])
      cleared == mapCopies(res.heap, board, TRUE)
  IN  IF ~res.moved
      THEN [heap |-> cleared.heap, tiles |-> cleared.refs, moved |-> FALSE,
            scoreGained |-> 0]
      ELSE [heap |-> res.heap, tiles |-> sortRefs(res.heap, res.tiles, "rowColId"),
            moved |-> TRUE, scoreGained |-> res.scoreGained]

\* addRandomTile called with the array board on the heap: on a full board the
\* array itself is returned, otherwise an array of copies and the new tile.
addRandomTileInPlace(heap, board, idRef, u, w) ==
  LET emptyPositions == getEmptyPositions(deref(heap, board))
  IN  IF Len(emptyPositions) = 0
      THEN [heap |-> heap, tiles |-> board, idRef |-> idRef]
      ELSE LET choice == emptyPositions[RandomIndex(u, Len(emptyPositions)) + 1]
               value == RandomValue(w)
               id == getNextTileId(idRef)
               copies == mapCopies(heap, board, FALSE)
           IN  [heap |-> Append(copies.heap,
                                Tile(id, value, choice.row, choice.col, TRUE, FALSE)),
                tiles |-> Append(copies.refs, Len(copies.heap) + 1),
                idRef |-> id]

\* The boards with pattern p on line 0 and any of its second lines on line 1.
CallBoardsOf(p) ==
  {BoardOf(TwoLineGrid(0, p, 1, q, transposed), FALSE) :
     q \in SecondLines(p), transposed \in BOOLEAN}

\* The boards the functions are called with: those of the fresh and recorded
\* sessions (tiles marked isNew and justMerged among them) and the boards of
\* one or two lines of every pattern.
CallBoards ==
  UNION {CallBoardsOf(p) : p \in LinePatterns \ {[k \in 1..BOARD_SIZE |-> 0]}}
  \cup {s.tiles : s \in FreshSessions \cup RecordedStates}

InitObjects ==
  \E b \in CallBoards :
    /\ tiles = b
    /\ score = 0
    /\ bestScore = 0
    /\ gameOver = FALSE
    /\ hasWon = FALSE
    /\ tileIdRef = MaxOf({b[i].id : i \in DOMAIN b})
    /\ scoreRef = 0
    /\ seenGameOver = FALSE
    /\ recentRuns = <<>>
    /\ screen = "home"
    /\ pending = <<>>
    /\ last = [input |-> Input("start", "", <<>>),
               pre |-> SessionState(b, 0, 0, FALSE, FALSE, MaxOf({b[i].id : i \in DOMAIN b}), <<>>),
               result |-> [tiles |-> <<>>, refs |-> <<>>, moved |-> FALSE,
                           scoreGained |-> 0]]
    /\ inputs = 0
    /\ clock = StartTime
    /\ lastShakeTimeRef = 0
    /\ shakeHandlers = {1}
    /\ shakeEffect = ShakeEffect(TRUE, FALSE, 1)

\* moveTiles is called with the caller's board; afterwards tiles is what the
\* caller's array refers to, and the array returned is recorded.
CallMoveTiles(direction) ==
  /\ inputs < MaxCalls
  /\ \E res \in {moveTilesInPlace(tiles, [k \in 1..Len(tiles) |-> k], direction)} :
       /\ tiles' = deref(res.heap, [k \in 1..Len(tiles) |-> k])
       /\ last' = [input |-> Input("moveTiles", direction, <<>>), pre |-> Session,
                   result |-> [tiles |-> deref(res.heap, res.tiles), refs |-> res.tiles,
                               moved |-> res.moved, scoreGained |-> res.scoreGained]]
  /\ inputs' = inputs + 1
  /\ UNCHANGED <<score, bestScore, gameOver, hasWon, tileIdRef, scoreRef,
                 seenGameOver, recentRuns, screen, pending, clock, lastShakeTimeRef,
                 shakeHandlers, shakeEffect>>

\* addRandomTile is called with the caller's board.
CallAddRandomTile ==
  /\ inputs < MaxCalls
  /\ \E u \in RandomDraws, w \in RandomDraws :
       \E res \in {addRandomTileInPlace(tiles, [k \in 1..Len(tiles) |-> k], tileIdRef, u, w)} :
         /\ tiles' = deref(res.heap, [k \in 1..Len(tiles) |-> k])
         /\ tileIdRef' = res.idRef
         /\ last' = [input |-> Input("addRandomTile", "", <<u, w>>), pre |-> Session,
                     result |-> [tiles |-> deref(res.heap, res.tiles), refs |-> res.tiles,
                                 moved |-> FALSE, scoreGained |-> 0]]
  /\ inputs' = inputs + 1
  /\ UNCHANGED <<score, bestScore, gameOver, hasWon, scoreRef,
                 seenGameOver, recentRuns, screen, pending, clock, lastShakeTimeRef,
                 shakeHandlers, shakeEffect>>

NextObjects ==
  \/ \E direction \in Directions : CallMoveTiles(direction)
  \/ CallAddRandomTile

SpecObjects == InitObjects /\ [][NextObjects]_vars

(***************************************************************************)
(* Vocabulary of the properties                                            *)
(***************************************************************************)
Cells(ts) == {<<ts[i].row, ts[i].col>> : i \in DOMAIN ts}

Ids(ts) == {ts[i].id : i \in DOMAIN ts}

RECURSIVE SumValues(_)
SumValues(ts) == IF Len(ts) = 0 THEN 0 ELSE Head(ts).value + SumValues(Tail(ts))

\* The tiles of ts that carry justMerged.
Merged(ts) == SelectSeq(ts, LAMBDA t : t.justMerged)

\* id, value and position of every tile, in board order.
Placement(ts) == [i \in DOMAIN ts |-> <<ts[i].id, ts[i].value, ts[i].row, ts[i].col>>]

\* The values of row r by column, 0 for an empty cell.
RowValues(ts, r) ==
  [c \in 0..(BOARD_SIZE - 1) |->
     IF \E i \in DOMAIN ts : ts[i].row = r /\ ts[i].col = c
     THEN (CHOOSE t \in {ts[i] : i \in DOMAIN ts} : t.row = r /\ t.col = c).value
     ELSE 0]

RowIs(ts, r, a, b, c, d) == RowValues(ts, r) = [k \in 0..(BOARD_SIZE - 1) |->
                              IF k = 0 THEN a ELSE IF k = 1 THEN b ELSE IF k = 2 THEN c ELSE d]

\* The line a tile lies on for a move in direction d.
LineOf(t, d) == IF d \in {"left", "right"} THEN t.row ELSE t.col

\* Two tiles in orthogonally adjacent cells hold the same value.
AdjacentEqual(ts) ==
  \E i, j \in DOMAIN ts :
    /\ ts[i].value = ts[j].value
    /\ \/ (ts[i].row = ts[j].row /\ ts[i].col + 1 = ts[j].col)
       \/ (ts[i].col = ts[j].col /\ ts[i].row + 1 = ts[j].row)

\* The last input was a Move; what moveTiles returns for its direction on
\* the board it found.
LastWasMove == last.input.op = "move"
LastWasNewGame == last.input.op = "newgame"
LastResult == last.result
\* The last Move was accepted: the game was not over and tiles moved.
LastAccepted == LastWasMove /\ ~last.pre.gameOver /\ LastResult.moved

(***************************************************************************)
(* C1  Occupancy: every tile of the board lies in the 4 x 4 grid and no    *)
(* two tiles share a cell, after any sequence of Move and NewGame inputs.  *)
(***************************************************************************)
C1_Occupancy ==
  /\ \A i \in DOMAIN tiles :
       /\ tiles[i].row \in 0..(BOARD_SIZE - 1)
       /\ tiles[i].col \in 0..(BOARD_SIZE - 1)
  /\ \A i, j \in DOMAIN tiles :
       (tiles[i].row = tiles[j].row /\ tiles[i].col = tiles[j].col) => i = j

\* A Move that merged and whose spawn filled the last empty cell.
C1_Witness ==
  /\ LastAccepted
  /\ LastResult.scoreGained > 0
  /\ Len(tiles) = BOARD_SIZE * BOARD_SIZE

(***************************************************************************)
(* C2  No-op Move: when moveTiles reports moved = false, the board it      *)
(* returns has the ids, values and positions of its input and scoreGained  *)
(* is 0, and the session keeps board, score, bestScore, hasWon, gameOver   *)
(* and the id counter as they were (no tile is spawned).                   *)
(***************************************************************************)
C2_NoOpMove ==
  (LastWasMove /\ ~LastResult.moved) =>
    /\ Placement(LastResult.tiles) = Placement(last.pre.tiles)
    /\ LastResult.scoreGained = 0
    /\ tiles = last.pre.tiles
    /\ score = last.pre.score
    /\ bestScore = last.pre.bestScore
    /\ hasWon = last.pre.hasWon
    /\ gameOver = last.pre.gameOver
    /\ tileIdRef = last.pre.tileIdRef

\* A Move that moves nothing on a board that still has moves.
C2_Witness ==
  /\ LastWasMove
  /\ ~LastResult.moved
  /\ ~last.pre.gameOver
  /\ Len(last.pre.tiles) > 0

(***************************************************************************)
(* C3  Merge-no-chain: in one move every surviving tile keeps its value or *)
(* doubles it once (doubled exactly when marked justMerged), each merge    *)
(* consumes exactly one tile, of the survivor's value and line; so a tile  *)
(* merges at most once and a merged tile does not merge again.  A row      *)
(* [2,2,2,2] moving left becomes [4,4], and [4,2,2] becomes [4,4].         *)
(***************************************************************************)
MergeOnce(before, d, res) ==
  LET after == res.tiles
      source(t) == CHOOSE s \in {before[i] : i \in DOMAIN before} : s.id = t.id
      consumed == {before[i] : i \in DOMAIN before} \ {source(after[k]) : k \in DOMAIN after}
  IN  res.moved =>
        /\ Ids(after) \subseteq Ids(before)
        /\ \A k \in DOMAIN after :
             after[k].value = IF after[k].justMerged THEN 2 * source(after[k]).value
                              ELSE source(after[k]).value
        /\ Len(before) - Len(after) = Len(Merged(after))
        /\ Cardinality(consumed) = Len(Merged(after))
        /\ \A k \in DOMAIN after :
             after[k].justMerged =>
               \E c \in consumed : /\ c.value = source(after[k]).value
                                   /\ LineOf(c, d) = LineOf(source(after[k]), d)

C3_MergeNoChain ==
  LastWasMove =>
    /\ MergeOnce(last.pre.tiles, last.input.arg, LastResult)
    /\ \A r \in 0..(BOARD_SIZE - 1) :
         last.input.arg = "left" =>
           /\ RowIs(last.pre.tiles, r, 2, 2, 2, 2) => RowIs(LastResult.tiles, r, 4, 4, 0, 0)
           /\ RowIs(last.pre.tiles, r, 4, 2, 2, 0) => RowIs(LastResult.tiles, r, 4, 4, 0, 0)

\* A Move left was accepted on a board whose row 0 was [2,2,2,2]: the row is
\* now [4,4] followed by empty cells or the spawned tile.
C3_Witness ==
  /\ LastAccepted
  /\ last.input.arg = "left"
  /\ RowIs(last.pre.tiles, 0, 2, 2, 2, 2)
  /\ RowValues(tiles, 0)[0] = 4
  /\ RowValues(tiles, 0)[1] = 4
  /\ RowValues(tiles, 0)[2] = 0

(***************************************************************************)
(* C4  Conservation on collapse: for every board and direction, the tile   *)
(* values returned by moveTiles (before any spawn) sum to the sum of the   *)
(* input board's values.                                                   *)
(***************************************************************************)
C4_Conservation ==
  LastWasMove => SumValues(LastResult.tiles) = SumValues(last.pre.tiles)

\* A Move was accepted that merged tiles in two lines at least: fewer tiles,
\* the same sum before the spawn.
C4_Witness ==
  /\ LastAccepted
  /\ Len(Merged(LastResult.tiles)) >= 2
  /\ Len(LastResult.tiles) < Len(last.pre.tiles)
  /\ SumValues(LastResult.tiles) = SumValues(last.pre.tiles)

C6_GameOverBlocksMove ==
  (LastWasMove /\ last.pre.gameOver) =>
    /\ tiles = last.pre.tiles
    /\ score = last.pre.score
    /\ bestScore = last.pre.bestScore
    /\ hasWon = last.pre.hasWon
    /\ gameOver = last.pre.gameOver
    /\ tileIdRef = last.pre.tileIdRef

\* A second Move arrived after the board had locked, and found it locked.
C6_Witness ==
  /\ LastWasMove
  /\ last.pre.gameOver
  /\ gameOver
  /\ inputs = 2

C8_ScoreAccounting ==
  /\ LastAccepted => score = last.pre.score + LastResult.scoreGained
  /\ LastWasMove =>
       /\ LastResult.scoreGained = SumValues(Merged(LastResult.tiles))
       /\ Len(LastResult.tiles) = Len(last.pre.tiles) => LastResult.scoreGained = 0

\* An accepted Move merged in two lines at least and the score rose by the
\* sum of the merged tiles.
C8_Witness ==
  /\ LastAccepted
  /\ Len(Merged(LastResult.tiles)) >= 2
  /\ score = last.pre.score + SumValues(Merged(LastResult.tiles))
  /\ score > last.pre.score

(***************************************************************************)
(* C9  Best score is a running maximum: bestScore >= score in every state, *)
(* every input leaves bestScore at the maximum of its previous value and   *)
(* the new score (so it never decreases), and NewGame leaves it unchanged. *)
(***************************************************************************)
C9_BestScore ==
  /\ bestScore >= score
  /\ bestScore = Max(last.pre.bestScore, score)
  /\ bestScore >= last.pre.bestScore
  /\ LastWasNewGame => bestScore = last.pre.bestScore

\* After a reset that followed a scoring round: bestScore is that round's
\* score, the new round's score is 0.
C9_Witness ==
  /\ LastWasNewGame
  /\ last.pre.score > 0
  /\ bestScore = last.pre.bestScore
  /\ bestScore > score

C11_WonDoesNotBlock ==
  (LastWasMove /\ last.pre.hasWon /\ ~last.pre.gameOver) =>
    LET notWon == render(handleMove([last.pre EXCEPT !.hasWon = FALSE], last.input.arg,
                                    last.input.draws[1], last.input.draws[2]))
    IN  /\ LastResult.moved =>
             /\ Len(tiles) = Len(LastResult.tiles) + 1
             /\ SubSeq(tiles, 1, Len(LastResult.tiles)) = LastResult.tiles
             /\ score = last.pre.score + LastResult.scoreGained
             /\ tileIdRef = last.pre.tileIdRef + 1
             /\ gameOver <=> (Len(tiles) = BOARD_SIZE * BOARD_SIZE /\ ~AdjacentEqual(tiles))
        /\ tiles = notWon.tiles
        /\ score = notWon.score
        /\ bestScore = notWon.bestScore
        /\ gameOver = notWon.gameOver
        /\ tileIdRef = notWon.tileIdRef

\* In a won round a Move was accepted, a tile was spawned into the last empty
\* cell and the board locked.
C11_Witness ==
  /\ LastAccepted
  /\ last.pre.hasWon
  /\ ~last.pre.gameOver
  /\ Len(tiles) = Len(LastResult.tiles) + 1
  /\ tiles # last.pre.tiles
  /\ gameOver

(***************************************************************************)
(* C12  Win trigger: containsTargetTile(board, target) is true exactly     *)
(* when the largest tile of the board is at least target; a board whose    *)
(* largest tile is 4096 passes the check for 2048, one whose largest tile  *)
(* is 1024 does not.                                                       *)
(***************************************************************************)
LastWasTargetCheck == last.input.op = "containsTargetTile"

LargestTile(ts) == MaxOf({ts[i].value : i \in DOMAIN ts})

C12_WinTrigger ==
  LastWasTargetCheck =>
    /\ last.result.found <=> LargestTile(tiles) >= last.input.arg
    /\ (LargestTile(tiles) = 4096 /\ last.input.arg = 2048) => last.result.found
    /\ (LargestTile(tiles) = 1024 /\ last.input.arg = 2048) => ~last.result.found

\* The check for 2048 passed on a board that holds a 4096 tile and no 2048 tile.
C12_Witness ==
  /\ LastWasTargetCheck
  /\ last.input.arg = 2048
  /\ LargestTile(tiles) = 4096
  /\ \A i \in DOMAIN tiles : tiles[i].value # 2048
  /\ last.result.found

(***************************************************************************)
(* C13  Fresh-round state: at session start and right after every NewGame, *)
(* whatever its reason and the state it found (locked and won boards       *)
(* included), the board holds exactly 2 tiles in distinct cells, each of   *)
(* value 2 or 4 with isNew set, their ids are 1 and 2 and the id counter   *)
(* stands at 2, score is 0, hasWon and gameOver are false.                 *)
(***************************************************************************)
LastWasStart == last.input.op = "start"

FreshRound ==
  /\ Len(tiles) = INITIAL_TILES
  /\ Cardinality(Cells(tiles)) = INITIAL_TILES
  /\ \A i \in DOMAIN tiles : tiles[i].value \in {2, 4} /\ tiles[i].isNew
  /\ Ids(tiles) = {1, 2}
  /\ tileIdRef = 2
  /\ score = 0
  /\ ~hasWon
  /\ ~gameOver

RunRecord(sc, reason) == [score |-> sc, triggeredBy |-> reason]

\* older, or older without its last entries, follows the first entry of runs.
KeepsOlder(runs, older) ==
  /\ Len(runs) >= 1
  /\ Len(runs) <= Len(older) + 1
  /\ \A k \in 2..Len(runs) : runs[k] = older[k - 1]

HistoryCap == IF screen = "tabs" THEN TABS_RECENT_RUNS_CAP ELSE RECENT_RUNS_CAP

C15_BoundedHistory ==
  /\ Len(recentRuns) <= HistoryCap
  /\ (screen = "tabs" => Len(recentRuns) <= 5) /\ (screen = "home" => Len(recentRuns) <= 10)
  /\ (LastWasNewGame /\ last.pre.score > 0) =>
       /\ recentRuns[1] = RunRecord(last.pre.score, last.input.arg)
       /\ Len(last.pre.recentRuns) < HistoryCap =>
            recentRuns = <<recentRuns[1]>> \o last.pre.recentRuns
       /\ Len(last.pre.recentRuns) = HistoryCap =>
            recentRuns = <<recentRuns[1]>> \o SubSeq(last.pre.recentRuns, 1, HistoryCap - 1)

\* A NewGame logged a round into the game context's history of 10 records:
\* the history still has 10 records and the oldest is gone.
C15_Witness ==
  /\ LastWasNewGame
  /\ screen = "home"
  /\ last.pre.score > 0
  /\ Len(last.pre.recentRuns) = RECENT_RUNS_CAP
  /\ Len(recentRuns) = RECENT_RUNS_CAP
  /\ recentRuns[RECENT_RUNS_CAP] = last.pre.recentRuns[RECENT_RUNS_CAP - 1]

(***************************************************************************)
(* C16  The history record written by NewGame carries the terminal score   *)
(* of the round: the score accumulated by all the Moves accepted before    *)
(* the reset, a Move accepted right before the NewGame included (scoreRef  *)
(* not yet refreshed).  The terminal score is the score that rendering     *)
(* everything issued before the reset gives.                               *)
(***************************************************************************)
\* The session the last input would have found had everything issued before it
\* been rendered.
RenderedBefore == renderQueue(last.pre, last.queued)

C16_TerminalScoreLogged ==
  (LastWasNewGame /\ pending = <<>> /\ RenderedBefore.score > 0) =>
    /\ Len(recentRuns) >= 1
    /\ recentRuns[1] = RunRecord(RenderedBefore.score, last.input.arg)

(***************************************************************************)
(* C17  NewGame is idempotent-safe: a NewGame issued right after another   *)
(* NewGame with no Move in between, also before the first one is rendered  *)
(* or its effect has run, appends no further history record and again      *)
(* gives a fresh 2-tile board with score 0 and ids 1 and 2.                *)
(***************************************************************************)
C17_RepeatedNewGame ==
  (LastWasNewGame /\ last.before.op = "newgame" /\ pending = <<>>) =>
    /\ recentRuns = RenderedBefore.recentRuns
    /\ FreshRound

(***************************************************************************)
(* C18  Whenever moveTiles reports moved = true, the collapsed board has   *)
(* at least one empty cell, so every accepted Move spawns exactly one      *)
(* tile: the board after the Move has one tile more than the collapsed     *)
(* board, and never more than 16.                                          *)
(***************************************************************************)
C18_RoomAfterMove ==
  /\ (LastWasMove /\ LastResult.moved) =>
       Cardinality(Cells(LastResult.tiles)) < BOARD_SIZE * BOARD_SIZE
  /\ LastAccepted =>
       /\ Len(tiles) = Len(LastResult.tiles) + 1
       /\ Cardinality(Cells(tiles)) = Cardinality(Cells(LastResult.tiles)) + 1
  /\ Len(tiles) <= BOARD_SIZE * BOARD_SIZE

\* A Move was accepted on a full board: the merge left 15 tiles and the spawn
\* made them 16 again.
C18_Witness ==
  /\ LastAccepted
  /\ Len(last.pre.tiles) = BOARD_SIZE * BOARD_SIZE
  /\ Len(LastResult.tiles) = BOARD_SIZE * BOARD_SIZE - 1
  /\ Len(tiles) = BOARD_SIZE * BOARD_SIZE

(***************************************************************************)
(* C19  Spawner frame: on a board that is not full addRandomTile returns   *)
(* every input tile unchanged, followed by exactly one new tile that sits  *)
(* in a cell that was empty, has value 2 or 4, isNew true, justMerged      *)
(* false and the next id of the counter, an id no input tile has; on a     *)
(* full board it returns the board unchanged and the counter is not        *)
(* touched.                                                                *)
(***************************************************************************)
LastWasSpawn == last.input.op = "addRandomTile"

C19_SpawnerFrame ==
  LastWasSpawn =>
    IF Cardinality(Cells(last.pre.tiles)) < BOARD_SIZE * BOARD_SIZE
    THEN LET new == tiles[Len(tiles)]
         IN  /\ Len(tiles) = Len(last.pre.tiles) + 1
             /\ SubSeq(tiles, 1, Len(last.pre.tiles)) = last.pre.tiles
             /\ <<new.row, new.col>> \notin Cells(last.pre.tiles)
             /\ new.row \in 0..(BOARD_SIZE - 1) /\ new.col \in 0..(BOARD_SIZE - 1)
             /\ new.value \in {2, 4}
             /\ new.isNew /\ ~new.justMerged
             /\ new.id = last.pre.tileIdRef + 1
             /\ new.id \notin Ids(last.pre.tiles)
             /\ tileIdRef = new.id
    ELSE /\ tiles = last.pre.tiles
         /\ tileIdRef = last.pre.tileIdRef

\* A 4 was spawned into the only empty cell of a board of 15 tiles.
C19_Witness ==
  /\ LastWasSpawn
  /\ Len(last.pre.tiles) = BOARD_SIZE * BOARD_SIZE - 1
  /\ Len(tiles) = BOARD_SIZE * BOARD_SIZE
  /\ tiles[Len(tiles)].value = 4
  /\ tiles[Len(tiles)].id = last.pre.tileIdRef + 1

(***************************************************************************)
(* C20  Tile ids are unique and never reused within a round: the tiles of  *)
(* the board have distinct ids, none above the counter; a spawned tile     *)
(* gets the counter's next id, above every id issued earlier in the round  *)
(* (on the board or merged away); the counter never goes down but at       *)
(* NewGame, which restarts it.                                             *)
(***************************************************************************)
C20_UniqueIds ==
  /\ Cardinality(Ids(tiles)) = Len(tiles)
  /\ \A i \in DOMAIN tiles : tiles[i].id \in 1..tileIdRef
  /\ LastAccepted =>
       /\ tiles[Len(tiles)].id = last.pre.tileIdRef + 1
       /\ \A i \in DOMAIN last.pre.tiles : tiles[Len(tiles)].id > last.pre.tiles[i].id
       /\ Ids(tiles) \ {tiles[Len(tiles)].id} \subseteq Ids(last.pre.tiles)
  /\ LastWasMove => tileIdRef >= last.pre.tileIdRef
  /\ tileIdRef < last.pre.tileIdRef => LastWasNewGame
  /\ LastWasNewGame => tileIdRef = INITIAL_TILES

\* In a second round a Move merged a tile away and the spawned tile took the
\* next id: the id of the consumed tile is on the board no more.
C20_Witness ==
  /\ LastAccepted
  /\ Len(last.pre.recentRuns) >= 1
  /\ Ids(last.pre.tiles) \ Ids(tiles) # {}
  /\ tiles[Len(tiles)].id = last.pre.tileIdRef + 1
  /\ tiles[Len(tiles)].isNew

(***************************************************************************)
(* C21  Atomic transitions: when a Move and a NewGame (in either order),   *)
(* or two Moves, are issued one right after the other before the screen    *)
(* has rendered, the board, score, bestScore, hasWon, gameOver and the id  *)
(* counter after the render are the ones obtained by handling the same     *)
(* inputs one after the other, each to completion, in the order of issue.  *)
(***************************************************************************)
\* The session after the last input, had the inputs before it been rendered
\* (effects included) before it was issued and had it been handled to
\* completion.
OneAfterTheOther ==
  LET found == render(RenderedBefore)
  IN  IF LastWasMove
      THEN render(handleMove(found, last.input.arg, last.input.draws[1], last.input.draws[2]))
      ELSE render(handleNewGame(found, last.input.arg, last.input.draws))

\* The last input was issued while the updates of the input before it were
\* still queued.
BackToBack ==
  /\ LastWasMove \/ LastWasNewGame
  /\ last.before.op \in {"move", "newgame"}
  /\ last.queued # <<>>

C21_AtomicTransitions ==
  (BackToBack /\ pending = <<>>) =>
    /\ tiles = OneAfterTheOther.tiles
    /\ score = OneAfterTheOther.score
    /\ bestScore = OneAfterTheOther.bestScore
    /\ hasWon = OneAfterTheOther.hasWon
    /\ gameOver = OneAfterTheOther.gameOver
    /\ tileIdRef = OneAfterTheOther.tileIdRef

(***************************************************************************)
(* C22  Shake debounce: any two readings accepted as shakes (each resets   *)
(* the game) are more than 2200 ms apart; a reading above the threshold    *)
(* that arrives within 2200 ms of the last accepted shake triggers nothing *)
(* and does not restart the debounce window: the window is measured from   *)
(* the last accepted shake only.                                           *)
(***************************************************************************)
LastWasSample == last.input.op = "sample"

C22_ShakeDebounce ==
  /\ \A i, j \in DOMAIN last.accepted :
       i < j => last.accepted[j] - last.accepted[i] > 2200
  /\ lastShakeTimeRef = IF last.accepted = <<>> THEN 0
                        ELSE last.accepted[Len(last.accepted)]
  /\ (LastWasSample /\ aboveThreshold(last.input.arg)) =>
       IF clock - last.window <= 2200
       THEN /\ Session = last.pre
            /\ lastShakeTimeRef = last.window
            /\ last.accepted = <<>> \/ last.accepted[Len(last.accepted)] = last.window
       ELSE /\ FreshRound
            /\ recentRuns = logRun(last.pre, "sensor")
            /\ lastShakeTimeRef = clock
            /\ last.accepted[Len(last.accepted)] = clock

\* A second shake was accepted, more than 2200 ms after the first and at most
\* 2200 ms after a reading above the threshold that had been turned down in
\* between.
C22_Witness ==
  /\ LastWasSample
  /\ Len(last.accepted) = 2
  /\ last.accepted[2] = clock
  /\ \E k \in DOMAIN last.rejected :
       /\ last.accepted[1] < last.rejected[k]
       /\ clock - last.rejected[k] <= 2200
  /\ FreshRound

(***************************************************************************)
(* C23  Packing: after moveTiles in any direction, in every line (row for  *)
(* left/right, column for up/down) the tiles occupy consecutive cells from *)
(* the destination edge on, with no gap, and the tiles that were not       *)
(* consumed keep their order along the line.                               *)
(***************************************************************************)
\* The position of a tile along the line of a move in direction d.
PosOf(t, d) == IF d \in {"left", "right"} THEN t.col ELSE t.row

\* The tiles of ts on line l of a move in direction d, in board order.
OnLine(ts, d, l) == SelectSeq(ts, LAMBDA t : LineOf(t, d) = l)

\* Every line of ts is packed against the edge that direction d moves to.
Packed(ts, d) ==
  \A l \in 0..(BOARD_SIZE - 1) :
    LET line == OnLine(ts, d, l)
        n == Len(line)
    IN  {PosOf(line[k], d) : k \in DOMAIN line} =
          IF d \in {"left", "up"} THEN 0..(n - 1) ELSE (BOARD_SIZE - n)..(BOARD_SIZE - 1)

\* The tile of ts that has the id of t.
SourceOf(ts, t) == ts[CHOOSE i \in DOMAIN ts : ts[i].id = t.id]

C23_Packing ==
  LastWasMove =>
    LET d == last.input.arg
        before == last.pre.tiles
        after == LastResult.tiles
    IN  /\ Packed(after, d)
        /\ \A a, b \in DOMAIN after :
             LineOf(after[a], d) = LineOf(after[b], d) =>
               (PosOf(after[a], d) < PosOf(after[b], d)
                  <=> PosOf(SourceOf(before, after[a]), d) < PosOf(SourceOf(before, after[b]), d))

\* A line with a gap was collapsed with a merge and is now packed: two tiles
\* at least are left on it.
C23_Witness ==
  /\ LastWasMove
  /\ LastResult.moved
  /\ ~Packed(last.pre.tiles, last.input.arg)
  /\ \E k \in DOMAIN LastResult.tiles :
       /\ LastResult.tiles[k].justMerged
       /\ Len(OnLine(LastResult.tiles, last.input.arg,
                     LineOf(LastResult.tiles[k], last.input.arg))) >= 2
       /\ Len(OnLine(last.pre.tiles, last.input.arg,
                     LineOf(LastResult.tiles[k], last.input.arg))) = 3
  /\ Packed(LastResult.tiles, last.input.arg)

(***************************************************************************)
(* C24  Merge priority: merges are resolved from the destination edge on,  *)
(* so of three equal tiles in a line the two nearest the destination edge  *)
(* merge: the line then holds the doubled tile at the edge and the third   *)
(* tile next to it.  [2,2,2] moving left gives [4,2] at columns 0 and 1,   *)
(* moving right it gives 2 at column 2 and 4 at column 3.                  *)
(***************************************************************************)
\* The values on line l of ts, from the edge that direction d moves to.
ValuesFromEdge(ts, d, l) ==
  LET line == OnLine(ts, d, l)
      at(p) == CHOOSE k \in DOMAIN line : PosOf(line[k], d) = p
      fromEdge == [k \in 1..BOARD_SIZE |->
                     IF d \in {"left", "up"} THEN k - 1 ELSE BOARD_SIZE - k]
      taken == SelectSeq(fromEdge, LAMBDA p : \E k \in DOMAIN line : PosOf(line[k], d) = p)
  IN  [k \in 1..Len(taken) |-> line[at(taken[k])].value]

\* The distance of a tile from the edge that direction d moves to.
FromEdge(t, d) == IF d \in {"left", "up"} THEN PosOf(t, d) ELSE BOARD_SIZE - 1 - PosOf(t, d)

C24_MergePriority ==
  LastWasMove =>
    LET d == last.input.arg
        before == last.pre.tiles
        after == LastResult.tiles
    IN  /\ \A l \in 0..(BOARD_SIZE - 1) :
             \E values \in {ValuesFromEdge(before, d, l)} :
               (Len(values) = 3 /\ values[1] = values[2] /\ values[2] = values[3]) =>
                 /\ ValuesFromEdge(after, d, l) = <<2 * values[1], values[1]>>
                 /\ \A k \in DOMAIN after :
                      LineOf(after[k], d) = l =>
                        /\ FromEdge(after[k], d) = (IF after[k].value = values[1] THEN 1 ELSE 0)
                        /\ after[k].justMerged <=> after[k].value = 2 * values[1]
        /\ \A r \in 0..(BOARD_SIZE - 1) :
             /\ (d = "left" /\ (RowIs(before, r, 2, 2, 2, 0) \/ RowIs(before, r, 0, 2, 2, 2)
                                \/ RowIs(before, r, 2, 0, 2, 2)))
                  => RowIs(after, r, 4, 2, 0, 0)
             /\ (d = "right" /\ (RowIs(before, r, 2, 2, 2, 0) \/ RowIs(before, r, 0, 2, 2, 2)
                                 \/ RowIs(before, r, 2, 2, 0, 2)))
                  => RowIs(after, r, 0, 0, 2, 4)

\* Row 0 was [2,2,2,_] and has been moved right: a 2 at column 2, the merged 4
\* at column 3.
C24_Witness ==
  /\ LastWasMove
  /\ last.input.arg = "right"
  /\ RowIs(last.pre.tiles, 0, 2, 2, 2, 0)
  /\ RowIs(LastResult.tiles, 0, 0, 0, 2, 4)
  /\ \E k \in DOMAIN LastResult.tiles :
       /\ LastResult.tiles[k].row = 0
       /\ LastResult.tiles[k].col = 3
       /\ LastResult.tiles[k].justMerged

(***************************************************************************)
(* C25  Exactness of the moved flag: for every well-formed board and       *)
(* direction, moveTiles reports moved = true exactly when the collapsed    *)
(* board differs from the input in the position or the value of some tile  *)
(* (a tile slid or a merge happened), and moved = false exactly when every *)
(* line is packed against the destination edge and no two neighbours along *)
(* the line of motion are equal.                                           *)
(***************************************************************************)
\* id, value and cell of the tiles, as a set.
PlacementSet(ts) == {<<ts[i].id, ts[i].value, ts[i].row, ts[i].col>> : i \in DOMAIN ts}

\* Two tiles next to each other along the line of a move in direction d hold
\* the same value.
EqualAlong(ts, d) ==
  \E i, j \in DOMAIN ts :
    /\ LineOf(ts[i], d) = LineOf(ts[j], d)
    /\ PosOf(ts[j], d) = PosOf(ts[i], d) + 1
    /\ ts[i].value = ts[j].value

C25_MovedExact ==
  LastWasMove =>
    LET d == last.input.arg
        before == last.pre.tiles
        after == LastResult.tiles
        slid == \E k \in DOMAIN after :
                  \/ after[k].row # SourceOf(before, after[k]).row
                  \/ after[k].col # SourceOf(before, after[k]).col
        merged == Len(after) < Len(before)
    IN  /\ LastResult.moved <=> PlacementSet(after) # PlacementSet(before)
        /\ LastResult.moved <=> (slid \/ merged)
        /\ ~LastResult.moved <=> (Packed(before, d) /\ ~EqualAlong(before, d))

\* The only change was a merge at the destination edge: no surviving tile
\* changed its cell, and moved is reported.
C25_Witness ==
  /\ LastWasMove
  /\ LastResult.moved
  /\ Packed(last.pre.tiles, last.input.arg)
  /\ Len(LastResult.tiles) < Len(last.pre.tiles)
  /\ \A k \in DOMAIN LastResult.tiles :
       /\ LastResult.tiles[k].row = SourceOf(last.pre.tiles, LastResult.tiles[k]).row
       /\ LastResult.tiles[k].col = SourceOf(last.pre.tiles, LastResult.tiles[k]).col

(***************************************************************************)
(* C26  hasAvailableMoves is exhaustive on full boards: for every full     *)
(* board, the scan that compares each cell with its right and its down     *)
(* neighbour only returns true exactly when some pair of orthogonally      *)
(* adjacent cells (left, right, up or down) holds equal values; for a      *)
(* board of fewer than 16 tiles it returns true.                           *)
(***************************************************************************)
LastWasScan == last.input.op = "hasAvailableMoves"

\* Some tile has a neighbour of its value on one of its four sides.
EqualNeighbours(ts) ==
  \E i, j \in DOMAIN ts :
    /\ ts[i].value = ts[j].value
    /\ \/ (ts[i].row = ts[j].row /\ ts[j].col = ts[i].col - 1)
       \/ (ts[i].row = ts[j].row /\ ts[j].col = ts[i].col + 1)
       \/ (ts[i].col = ts[j].col /\ ts[j].row = ts[i].row - 1)
       \/ (ts[i].col = ts[j].col /\ ts[j].row = ts[i].row + 1)

C26_ExhaustiveScan ==
  LastWasScan =>
    IF Len(tiles) = BOARD_SIZE * BOARD_SIZE
    THEN last.result.available <=> EqualNeighbours(tiles)
    ELSE Len(tiles) < BOARD_SIZE * BOARD_SIZE /\ last.result.available

\* The scan found the only equal pair of a full board, the two cells at the
\* bottom of the last column (neither has a right neighbour, the lower one
\* has no down neighbour).
C26_Witness ==
  /\ LastWasScan
  /\ Len(tiles) = BOARD_SIZE * BOARD_SIZE
  /\ last.result.available
  /\ \A i, j \in DOMAIN tiles :
       (i # j /\ tiles[i].value = tiles[j].value
          /\ (tiles[i].row - tiles[j].row) * (tiles[i].row - tiles[j].row)
               + (tiles[i].col - tiles[j].col) * (tiles[i].col - tiles[j].col) = 1)
         => (tiles[i].col = BOARD_SIZE - 1 /\ tiles[j].col = BOARD_SIZE - 1
               /\ tiles[i].row >= BOARD_SIZE - 2 /\ tiles[j].row >= BOARD_SIZE - 2)

(***************************************************************************)
(* C27  The terminal flag agrees with the move function: for every         *)
(* reachable board hasAvailableMoves is false exactly when moveTiles       *)
(* reports moved = false in all four directions; every reachable board     *)
(* that is not full has a direction with moved = true, so 'not full means  *)
(* moves available' never promises a move that does not exist.             *)
(***************************************************************************)
\* moveTiles moves something on ts in some direction.
SomeMove(ts) == \E d \in Directions : moveTiles(ts, d).moved

C27_TerminalAgreesWithMoves ==
  \E some \in {SomeMove(tiles)} :
    /\ hasAvailableMoves(tiles) <=> some
    /\ Len(tiles) < BOARD_SIZE * BOARD_SIZE => some
    /\ gameOver <=> ~some

\* An accepted Move has filled the board and a move is left on it: no cell is
\* empty, and moveTiles still moves.
C27_Witness ==
  /\ LastAccepted
  /\ Len(tiles) = BOARD_SIZE * BOARD_SIZE
  /\ ~gameOver
  /\ SomeMove(tiles)

(***************************************************************************)
(* C28  Line independence: a left/right move never changes the row of a    *)
(* tile and an up/down move never changes its column, and what becomes of  *)
(* a line depends only on the tiles that were in that line before the      *)
(* move: it is what moveTiles makes of the board that holds those tiles    *)
(* alone.                                                                  *)
(***************************************************************************)
\* The tiles of a sequence as a set.
TileSet(ts) == {ts[i] : i \in DOMAIN ts}

C28_LineIndependence ==
  LastWasMove =>
    LET d == last.input.arg
        before == last.pre.tiles
        after == LastResult.tiles
    IN  /\ \A k \in DOMAIN after :
             IF d \in {"left", "right"}
             THEN after[k].row = SourceOf(before, after[k]).row
             ELSE after[k].col = SourceOf(before, after[k]).col
        /\ \A l \in 0..(BOARD_SIZE - 1) :
             \E line \in {OnLine(clearFlags(before), d, l)} :
               IF line = <<>>
               THEN OnLine(after, d, l) = <<>>
               ELSE TileSet(OnLine(after, d, l)) = TileSet(moveTiles(line, d).tiles)

\* Two lines were occupied: one has merged, the tiles of the other are where
\* they were.
C28_Witness ==
  /\ LastWasMove
  /\ LastResult.moved
  /\ \E l, m \in 0..(BOARD_SIZE - 1) :
       /\ l # m
       /\ \E k \in DOMAIN LastResult.tiles :
            LineOf(LastResult.tiles[k], last.input.arg) = l /\ LastResult.tiles[k].justMerged
       /\ OnLine(last.pre.tiles, last.input.arg, m) # <<>>
       /\ PlacementSet(OnLine(LastResult.tiles, last.input.arg, m))
            = PlacementSet(OnLine(last.pre.tiles, last.input.arg, m))

(***************************************************************************)
(* C29  Id stability under merge: a tile that is not consumed by a merge   *)
(* keeps its id across a move; a merged tile keeps the id of the tile of   *)
(* the pair that was nearer the destination edge; the id of the consumed   *)
(* tile is on the board no more.                                           *)
(***************************************************************************)
\* In board ts, c is the tile that follows s on its line, seen from the edge
\* that direction d moves to.
FollowsOnLine(ts, d, s, c) ==
  /\ LineOf(c, d) = LineOf(s, d)
  /\ FromEdge(c, d) > FromEdge(s, d)
  /\ \A i \in DOMAIN ts :
       LineOf(ts[i], d) = LineOf(s, d) =>
         ~(FromEdge(s, d) < FromEdge(ts[i], d) /\ FromEdge(ts[i], d) < FromEdge(c, d))

C29_IdStability ==
  LastWasMove =>
    LET d == last.input.arg
        before == last.pre.tiles
        after == LastResult.tiles
        consumed == {c \in TileSet(before) : c.id \notin Ids(after)}
    IN  /\ Ids(after) \subseteq Ids(before)
        /\ Cardinality(Ids(after)) = Len(after)
        /\ \A k \in DOMAIN after :
             LET s == SourceOf(before, after[k])
             IN  /\ LineOf(s, d) = LineOf(after[k], d)
                 /\ IF after[k].justMerged
                    THEN /\ after[k].value = 2 * s.value
                         /\ \E c \in consumed :
                              c.value = s.value /\ FollowsOnLine(before, d, s, c)
                    ELSE after[k].value = s.value
        /\ \A c \in consumed :
             \E k \in DOMAIN after :
               /\ after[k].justMerged
               /\ SourceOf(before, after[k]).value = c.value
               /\ FollowsOnLine(before, d, SourceOf(before, after[k]), c)
        /\ Cardinality(consumed) = Len(Merged(after))

\* A line of three equal tiles was collapsed: the nearest to the edge is the
\* merged tile, the second is gone, the third has kept its id and has slid.
C29_Witness ==
  /\ LastWasMove
  /\ \E k, m \in DOMAIN LastResult.tiles :
       /\ k # m
       /\ LineOf(LastResult.tiles[k], last.input.arg) = LineOf(LastResult.tiles[m], last.input.arg)
       /\ LastResult.tiles[k].justMerged
       /\ ~LastResult.tiles[m].justMerged
       /\ LastResult.tiles[m].value = SourceOf(last.pre.tiles, LastResult.tiles[k]).value
       /\ FromEdge(SourceOf(last.pre.tiles, LastResult.tiles[m]), last.input.arg)
            > FromEdge(LastResult.tiles[m], last.input.arg)
  /\ Len(LastResult.tiles) < Len(last.pre.tiles)
  /\ Ids(last.pre.tiles) \ Ids(LastResult.tiles) # {}

(***************************************************************************)
(* C30  Annotation exactness after an accepted Move: on the board          *)
(* published after an accepted Move isNew is true on exactly one tile, the *)
(* one just spawned, and justMerged is true on exactly the tiles produced  *)
(* by a merge of that Move; every other tile has both flags false.         *)
(***************************************************************************)
C30_AnnotationExact ==
  LastAccepted =>
    LET before == last.pre.tiles
        spawned == tiles[Len(tiles)]
    IN  /\ {i \in DOMAIN tiles : tiles[i].isNew} = {Len(tiles)}
        /\ spawned.id \notin Ids(before)
        /\ spawned.id = last.pre.tileIdRef + 1
        /\ ~spawned.justMerged
        /\ \A i \in 1..(Len(tiles) - 1) :
             /\ tiles[i].id \in Ids(before)
             /\ tiles[i].justMerged <=> tiles[i].value = 2 * SourceOf(before, tiles[i]).value
             /\ ~tiles[i].justMerged => tiles[i].value = SourceOf(before, tiles[i]).value
        /\ Cardinality({i \in DOMAIN tiles : tiles[i].justMerged})
             = Len(before) - (Len(tiles) - 1)

\* The board the Move found had a tile marked isNew and a tile marked
\* justMerged; the Move merged another pair.  Only the spawned tile is new
\* now and only the tile of this merge is marked justMerged.
C30_Witness ==
  /\ LastAccepted
  /\ \E i \in DOMAIN last.pre.tiles : last.pre.tiles[i].isNew
  /\ \E i \in DOMAIN last.pre.tiles :
       /\ last.pre.tiles[i].justMerged
       /\ \E k \in DOMAIN tiles :
            tiles[k].id = last.pre.tiles[i].id /\ ~tiles[k].justMerged
  /\ \E k \in DOMAIN tiles : tiles[k].justMerged
  /\ tiles[Len(tiles)].isNew

(***************************************************************************)
(* C31  Annotations last one move: a tile's isNew or justMerged flag that  *)
(* was set by one Move (or by the initial setup) is false in the board     *)
(* published after the next Move input: no tile the Move found on the      *)
(* board is marked isNew afterwards, and one that is marked justMerged     *)
(* afterwards was doubled by this very Move.                               *)
(***************************************************************************)
C31_AnnotationsLastOneMove ==
  LastWasMove =>
    \A k \in DOMAIN tiles :
      tiles[k].id \in Ids(last.pre.tiles) =>
        /\ ~tiles[k].isNew
        /\ tiles[k].justMerged =>
             tiles[k].value = 2 * SourceOf(last.pre.tiles, tiles[k]).value

(***************************************************************************)
(* C32  Tile values stay powers of two: on every reachable board every     *)
(* tile value is 2^k for some k >= 1; the tiles of the initial setup and   *)
(* the tile spawned by an accepted Move are 2 or 4, and a merge produces   *)
(* exactly twice the common value of the two tiles merged.                 *)
(***************************************************************************)
RECURSIVE IsPowerOfTwo(_)
IsPowerOfTwo(v) == v = 2 \/ (v > 2 /\ v % 2 = 0 /\ IsPowerOfTwo(v \div 2))

C32_PowersOfTwo ==
  /\ \A i \in DOMAIN tiles : IsPowerOfTwo(tiles[i].value)
  /\ (LastWasNewGame \/ last.input.op = "start") =>
       \A i \in DOMAIN tiles : tiles[i].value \in {2, 4}
  /\ LastAccepted => tiles[Len(tiles)].value \in {2, 4}
  /\ LastWasMove =>
       \A k \in DOMAIN LastResult.tiles :
         LastResult.tiles[k].justMerged =>
           \E kept, consumed \in DOMAIN last.pre.tiles :
             /\ last.pre.tiles[kept].id = LastResult.tiles[k].id
             /\ last.pre.tiles[consumed].id \notin Ids(LastResult.tiles)
             /\ last.pre.tiles[consumed].value = last.pre.tiles[kept].value
             /\ LineOf(last.pre.tiles[consumed], last.input.arg)
                  = LineOf(last.pre.tiles[kept], last.input.arg)
             /\ LastResult.tiles[k].value = 2 * last.pre.tiles[kept].value

\* An accepted Move merged two tiles of 4 or more into their double, beside
\* a tile of another value on the same line, and a 4 was spawned.
C32_Witness ==
  /\ LastAccepted
  /\ tiles[Len(tiles)].value = 4
  /\ \E k, m \in DOMAIN LastResult.tiles :
       /\ LastResult.tiles[k].justMerged
       /\ LastResult.tiles[k].value >= 8
       /\ ~LastResult.tiles[m].justMerged
       /\ LastResult.tiles[m].value # LastResult.tiles[k].value
       /\ LineOf(LastResult.tiles[m], last.input.arg)
            = LineOf(LastResult.tiles[k], last.input.arg)

(***************************************************************************)
(* C33  Orientation symmetry: moving right equals mirroring the board      *)
(* horizontally, moving left and mirroring back; moving up (down) equals   *)
(* transposing the board, moving left (right) and transposing back: the    *)
(* moved flag, scoreGained and the tiles (ids, values, cells, flags) are   *)
(* the same.                                                               *)
(***************************************************************************)
\* The board mirrored horizontally: column c becomes column BOARD_SIZE-1-c.
Mirror(ts) == [i \in DOMAIN ts |-> [ts[i] EXCEPT !.col = BOARD_SIZE - 1 - ts[i].col]]

\* The board transposed: rows and columns change places.
Transpose(ts) == [i \in DOMAIN ts |-> [ts[i] EXCEPT !.row = ts[i].col, !.col = ts[i].row]]

\* res is what other becomes when its tiles are taken back to the
\* orientation of the board moved.
SameOutcome(res, other, back) ==
  /\ res.moved = other.moved
  /\ res.scoreGained = other.scoreGained
  /\ TileSet(res.tiles) = TileSet(back)

C33_OrientationSymmetry ==
  LastWasMove =>
    LET before == last.pre.tiles
        d == last.input.arg
    IN  /\ d = "right" =>
             \E other \in {moveTiles(Mirror(before), "left")} :
               SameOutcome(LastResult, other, Mirror(other.tiles))
        /\ d = "left" =>
             \E other \in {moveTiles(Mirror(before), "right")} :
               SameOutcome(LastResult, other, Mirror(other.tiles))
        /\ d = "up" =>
             \E other \in {moveTiles(Transpose(before), "left")} :
               SameOutcome(LastResult, other, Transpose(other.tiles))
        /\ d = "down" =>
             \E other \in {moveTiles(Transpose(before), "right")} :
               SameOutcome(LastResult, other, Transpose(other.tiles))

\* A move down merged the lower two of three equal tiles of a column and a
\* pair of another column, and moved a tile without merging it.
C33_Witness ==
  /\ LastWasMove
  /\ last.input.arg = "down"
  /\ LastResult.moved
  /\ Len(Merged(LastResult.tiles)) >= 2
  /\ \E k, m \in DOMAIN LastResult.tiles :
       /\ LastResult.tiles[k].col = LastResult.tiles[m].col
       /\ LastResult.tiles[k].row = BOARD_SIZE - 1
       /\ LastResult.tiles[k].justMerged
       /\ LastResult.tiles[m].row = BOARD_SIZE - 2
       /\ ~LastResult.tiles[m].justMerged
       /\ 2 * LastResult.tiles[m].value = LastResult.tiles[k].value
       /\ SourceOf(last.pre.tiles, LastResult.tiles[m]).row
            < SourceOf(last.pre.tiles, LastResult.tiles[k]).row
       /\ SourceOf(last.pre.tiles, LastResult.tiles[m]).row < BOARD_SIZE - 2

(***************************************************************************)
(* C34  Input immutability: moveTiles and addRandomTile never modify the   *)
(* board passed to them: after the call every tile record of the input     *)
(* board has the same id, value, row, col, isNew and justMerged as before, *)
(* whether or not the move was accepted.                                   *)
(***************************************************************************)
LastWasCall == last.input.op \in {"moveTiles", "addRandomTile"}

C34_InputImmutability ==
  LastWasCall => tiles = last.pre.tiles

\* moveTiles merged a pair and moved tiles of a board that carried isNew and
\* justMerged marks: the returned tiles differ from the caller's in value,
\* place and marks, and the caller's are objects of their own.
C34_Witness ==
  /\ last.input.op = "moveTiles"
  /\ LastResult.moved
  /\ \E k \in DOMAIN LastResult.tiles : LastResult.tiles[k].justMerged
  /\ \E i \in DOMAIN last.pre.tiles : last.pre.tiles[i].isNew
  /\ \E i \in DOMAIN last.pre.tiles : last.pre.tiles[i].justMerged
  /\ \A k \in DOMAIN LastResult.refs : LastResult.refs[k] > Len(last.pre.tiles)
  /\ Len(LastResult.tiles) < Len(tiles)

(***************************************************************************)
(* C35  Canonical order: whenever moveTiles reports moved = true, the tile *)
(* list it returns is sorted by row ascending, then column ascending, then *)
(* id ascending; the boards being well-formed, it is strictly increasing   *)
(* in (row, col).                                                          *)
(***************************************************************************)
\* Tile s stands before tile t in row-major order of their cells.
CellBefore(s, t) == s.row < t.row \/ (s.row = t.row /\ s.col < t.col)

C35_CanonicalOrder ==
  (LastWasMove /\ LastResult.moved) =>
    \A k \in 1..(Len(LastResult.tiles) - 1) :
      /\ CellBefore(LastResult.tiles[k], LastResult.tiles[k + 1])
      /\ compare("rowColId", LastResult.tiles[k], LastResult.tiles[k + 1]) < 0

\* A move up or down that moved tiles returns tiles of two columns and two
\* rows: a tile of the right column stands before one of the left column, as
\* their rows demand, while the columns were collapsed left to right.
C35_Witness ==
  /\ LastWasMove
  /\ LastResult.moved
  /\ last.input.arg \in {"up", "down"}
  /\ \E k, m \in DOMAIN LastResult.tiles :
       /\ k < m
       /\ LastResult.tiles[k].col > LastResult.tiles[m].col
       /\ LastResult.tiles[k].row < LastResult.tiles[m].row

(***************************************************************************)
(* C36  Sticky flag and board never disagree: in every reachable session   *)
(* state hasWon is true if and only if the board holds a tile of 2048 or   *)
(* more; a tile that reached the target is only ever replaced by a larger  *)
(* one, until NewGame clears both.                                         *)
(***************************************************************************)
\* The tiles of ts that reached the target.
TargetTiles(ts) == {i \in DOMAIN ts : ts[i].value >= WIN_TARGET}

C37_ProgressMeasure ==
  LastWasMove =>
    \E before \in {SumValues(last.pre.tiles)}, after \in {SumValues(tiles)} :
      /\ LastAccepted =>
           /\ after = before + tiles[Len(tiles)].value
           /\ tiles[Len(tiles)].isNew
           /\ after - before \in {2, 4}
           /\ tiles # last.pre.tiles
      /\ ~LastAccepted => after = before /\ tiles = last.pre.tiles

\* An accepted Move on a full board: it merged tiles, so the board holds
\* fewer tiles than before plus the spawned 4, and the sum is 4 larger.
C37_Witness ==
  /\ LastAccepted
  /\ Len(last.pre.tiles) = BOARD_SIZE * BOARD_SIZE
  /\ Len(tiles) <= Len(last.pre.tiles)
  /\ SumValues(tiles) = SumValues(last.pre.tiles) + 4

(***************************************************************************)
(* C38  One reset per accepted shake: from the moment the screen's effect  *)
(* has registered its handler until its cleanup has run, the shake-handler *)
(* set holds exactly one handler, the one the effect registered last (also *)
(* after a re-registration under a new identity), and every accepted shake *)
(* calls handleNewGame('sensor') exactly once; the set is empty once the   *)
(* screen has unregistered, and an accepted shake then resets nothing.     *)
(***************************************************************************)
\* The last event was a reading that the listener took for a shake.
LastWasShake == last.input.op = "sample" /\ lastShakeTimeRef = clock

====
